---- MODULE Spec2Model ----
(***************************************************************************)
(* Alerting engine of nix-hypervisor-tui: the rule evaluators              *)
(* (src/alerts/rules.rs), the alert record (src/alerts/types.rs) and the   *)
(* AlertManager (src/alerts/manager.rs).                                   *)
(*                                                                         *)
(* Conventions.                                                            *)
(*  - Time is in milliseconds.  A call of a manager method that reads     *)
(*    Local::now() reads one instant `now`, not earlier than the instant   *)
(*    `clock` the previous call read: time never runs backwards.           *)
(*  - f64 metric values are integers; the memory inputs are chosen so that *)
(*    used / total * 100 is exact.                                         *)
(*  - Option<T>: None is <<>>, Some(x) is <<x>>.                           *)
(*  - rand::random::<u32>() is a choice between every nonce already in use *)
(*    for the same category and millisecond (a collision) and one nonce    *)
(*    that is not (all unused values behave alike; the least is taken).    *)
(*  - A HashMap is a function; its iteration order is a chosen permutation.*)
(*  - AlertMetadata.node_name / pod_name / vm_name are never set by any    *)
(*    evaluator and are left out of the record.                            *)
(*  - A formatted title or message is the tuple of its text and of the    *)
(*    numbers formatted into it.                                           *)
(*  - u32 arithmetic keeps its 32 bits.  The build profile decides whether *)
(*    a u32 overflow panics or wraps; a call that can overflow takes       *)
(*    either outcome, and a call that panicked leaves last_op = "panic".   *)
(*                                                                         *)
(* Specifications.                                                         *)
(*  - Spec: the manager from AlertManager::new on, one action per public  *)
(*    method.                                                              *)
(*  - SpecFull: the same methods on a manager whose history is at its cap. *)
(*  - SpecCycle: one evaluate call followed statement by statement.        *)
(*  - SpecRules: SystemMetricsRule::evaluate on its own.                   *)
(*  - SpecCluster: KubernetesRule::evaluate and KubeVirtRule::evaluate on  *)
(*    their own, and the cycles of a manager built with any setting of     *)
(*    with_kubernetes_enabled / with_kubevirt_enabled.                     *)
(*  - SpecApp: the loop of run_app (src/main.rs) on the App of src/app.rs: *)
(*    key events and periodic updates drive the manager.  The logs, the    *)
(*    network screen, the search, the scroll offset and the sparkline      *)
(*    history of the App hold no alert state and are left out.             *)
(*  - SpecScreens: the same loop when the Kubernetes collector has no      *)
(*    client and serves its mock data, over a bounded number of cycles.    *)
(***************************************************************************)
EXTENDS Integers, Sequences, FiniteSets, TLC

\* ------------------------------------------------------------------ bounds
MaxCalls == 3
MaxActive == 2
MaxNodes == 4
MaxClusterCycles == 2
MaxScreenCycles == 1

\* ------------------------------------------------------- program constants
max_history_size == 1000
dedup_window_seconds == 300
HistoryMaxAgeDays == 7
PercentHysteresis == 5
LoadHysteresis == 2

MillisPerSecond == 1000
MillisPerDay == 86400000

None == << >>
Some(x) == << x >>

\* ----------------------------------------------------------------- types
AlertLevel == {"Info", "Warning", "Error", "Critical"}
AlertCategory == {"System", "Network", "Kubernetes", "KubeVirt", "Service"}
AlertStatus == {"Active", "Acknowledged", "Dismissed", "Resolved"}

as_str(category) ==
    CASE category = "System" -> "system"
      [] category = "Network" -> "network"
      [] category = "Kubernetes" -> "kubernetes"
      [] category = "KubeVirt" -> "kubevirt"
      [] category = "Service" -> "service"

\* Alert::new: the identifier is category-millis-nonce, the status Active,
\* the trigger time now, no acknowledge or resolve time, no value/threshold.
Alert_new(level, category, title, message, source, now, nonce) ==
    [ id |-> << as_str(category), now, nonce >>,
      level |-> level,
      category |-> category,
      status |-> "Active",
      title |-> title,
      message |-> message,
      triggered_at |-> now,
      acknowledged_at |-> None,
      resolved_at |-> None,
      metadata |-> [ source |-> source, value |-> None, threshold |-> None ] ]

with_value(alert, value, threshold) ==
    [ alert EXCEPT !.metadata.value = Some(value),
                   !.metadata.threshold = Some(threshold) ]

\* acknowledge stamping the time whatever the status is
acknowledge_Restamp(alert, now) ==
    [ alert EXCEPT !.status = "Acknowledged", !.acknowledged_at = Some(now) ]

\* Alert::acknowledge
acknowledge(alert, now) ==
    IF alert.status = "Active"
    THEN [ alert EXCEPT !.status = "Acknowledged", !.acknowledged_at = Some(now) ]
    ELSE alert

\* dismiss dropping the acknowledge time
dismiss_DropsAcknowledge(alert) ==
    [ alert EXCEPT !.status = "Dismissed", !.acknowledged_at = None ]

\* dismiss stamping a resolve time
dismiss_StampsResolved(alert) ==
    [ alert EXCEPT !.status = "Dismissed", !.resolved_at = Some(alert.triggered_at) ]

\* Alert::dismiss
dismiss(alert) == [ alert EXCEPT !.status = "Dismissed" ]

\* resolve dropping the acknowledge time
resolve_DropsAcknowledge(alert, now) ==
    [ alert EXCEPT !.status = "Resolved", !.resolved_at = Some(now),
                   !.acknowledged_at = None ]

\* Alert::resolve
resolve(alert, now) ==
    [ alert EXCEPT !.status = "Resolved", !.resolved_at = Some(now) ]

is_active(alert) == alert.status \in {"Active", "Acknowledged"}

\* SystemAlert::default
SystemAlertDefault ==
    [ cpu_warning_threshold |-> 80, cpu_critical_threshold |-> 95,
      cpu_enabled |-> TRUE,
      memory_warning_threshold |-> 85, memory_critical_threshold |-> 95,
      memory_enabled |-> TRUE,
      disk_warning_threshold |-> 85, disk_critical_threshold |-> 95,
      disk_enabled |-> TRUE,
      load_warning_threshold |-> 10, load_critical_threshold |-> 20,
      load_enabled |-> TRUE ]

\* SystemMetrics::default and the snapshots App::new starts from
SystemMetricsDefault ==
    [ cpu_usage |-> 0, memory_used_gb |-> 0, memory_total_gb |-> 0,
      disk_usage_percent |-> 0, load_avg |-> 0 ]

K8sInfoInitial == [ nodes_ready |-> 0, nodes_total |-> 0, pods_running |-> 0 ]

KubeVirtInfoInitial == [ vms_migrating |-> 0 ]

\* the memory percentage read as 100 when the total is 0
MemoryPercent_FullWhenEmpty(metrics) ==
    IF metrics.memory_total_gb > 0
    THEN (metrics.memory_used_gb * 100) \div metrics.memory_total_gb
    ELSE 100

\* ----------------------------------------------------------- rule evaluators
\* used / total * 100, guarded to 0 when total is 0
MemoryPercent(metrics) ==
    IF metrics.memory_total_gb > 0
    THEN (metrics.memory_used_gb * 100) \div metrics.memory_total_gb
    ELSE 0

\* ThresholdBlock with the critical test written `>` instead of `>=`
ThresholdBlock_StrictCritical(enabled, value, warning, critical, crit_title, warn_title, source, now, nonce) ==
    IF ~enabled THEN << >>
    ELSE IF value > critical
    THEN << with_value(Alert_new("Critical", "System", << crit_title >>,
                                 << crit_title, value >>, source, now, nonce),
                       value, critical) >>
    ELSE IF value >= warning
    THEN << with_value(Alert_new("Warning", "System", << warn_title >>,
                                 << warn_title, value >>, source, now, nonce),
                       value, warning) >>
    ELSE << >>

\* One threshold block of SystemMetricsRule::evaluate: critical first, else
\* warning, else nothing; the alert carries the threshold that fired.
ThresholdBlock(enabled, value, warning, critical, crit_title, warn_title, source, now, nonce) ==
    IF ~enabled THEN << >>
    ELSE IF value >= critical
    THEN << with_value(Alert_new("Critical", "System", << crit_title >>,
                                 << crit_title, value >>, source, now, nonce),
                       value, critical) >>
    ELSE IF value >= warning
    THEN << with_value(Alert_new("Warning", "System", << warn_title >>,
                                 << warn_title, value >>, source, now, nonce),
                       value, warning) >>
    ELSE << >>

CpuBlock(metrics, config, now, nonce) ==
    ThresholdBlock(config.cpu_enabled, metrics.cpu_usage,
                   config.cpu_warning_threshold, config.cpu_critical_threshold,
                   "Critical CPU Usage", "High CPU Usage", "cpu", now, nonce)

MemoryBlock(metrics, config, now, nonce) ==
    ThresholdBlock(config.memory_enabled, MemoryPercent(metrics),
                   config.memory_warning_threshold,
                   config.memory_critical_threshold,
                   "Critical Memory Usage", "High Memory Usage", "memory",
                   now, nonce)

DiskBlock(metrics, config, now, nonce) ==
    ThresholdBlock(config.disk_enabled, metrics.disk_usage_percent,
                   config.disk_warning_threshold, config.disk_critical_threshold,
                   "Critical Disk Usage", "High Disk Usage", "disk", now, nonce)

LoadBlock(metrics, config, now, nonce) ==
    ThresholdBlock(config.load_enabled, metrics.load_avg,
                   config.load_warning_threshold, config.load_critical_threshold,
                   "Critical Load Average", "High Load Average", "load",
                   now, nonce)

\* the value of the k-th rand::random::<u32>() of a cycle
NonceAt(nz, k) == IF k \in DOMAIN nz THEN nz[k] ELSE 0

\* SystemMetricsRule::evaluate; the k-th Alert::new draws the nonce nz[k + 1]
SystemMetricsRule_evaluate(metrics, config, now, nz) ==
    LET a1 == CpuBlock(metrics, config, now, NonceAt(nz, 1))
        a2 == a1 \o MemoryBlock(metrics, config, now, NonceAt(nz, Len(a1) + 1))
        a3 == a2 \o DiskBlock(metrics, config, now, NonceAt(nz, Len(a2) + 1))
    IN  a3 \o LoadBlock(metrics, config, now, NonceAt(nz, Len(a3) + 1))

\* A u32 result that can exceed the counts of a snapshot is held as the pair
\* << v \div 2^16, v % 2^16 >> of its high and low half.
HalfWord == 2 ^ 16

U32(n) == << n \div HalfWord, n % HalfWord >>

\* x >= n and x > 0, for a u32 pair x and a number n below 2^31
U32GreaterEq(x, n) ==
    \/ x[1] > n \div HalfWord
    \/ x[1] = n \div HalfWord /\ x[2] >= n % HalfWord

U32Positive(x) == x # << 0, 0 >>

\* u32 subtraction a - b as a build without overflow checks computes it
\* (a - b mod 2^32), for a and b below 2^16
wrapping_sub(a, b) ==
    IF a >= b THEN U32(a - b) ELSE << HalfWord - 1, HalfWord + a - b >>

\* nodes_total - nodes_ready is computed and is below zero: a build with
\* overflow checks panics there, one without wraps
SubtractionOverflows(cluster_info) ==
    /\ cluster_info.nodes_total > 0
    /\ cluster_info.nodes_ready > cluster_info.nodes_total

\* let unhealthy_nodes = nodes_total - nodes_ready
UnhealthyNodes(cluster_info) ==
    wrapping_sub(cluster_info.nodes_total, cluster_info.nodes_ready)

\* NodeLevel comparing with half the nodes rounded up
NodeLevel_ExactHalf(cluster_info) ==
    IF U32GreaterEq(UnhealthyNodes(cluster_info), (cluster_info.nodes_total + 1) \div 2)
    THEN "Critical" ELSE "Warning"

\* the level of the node-health alert; nodes_total / 2 is u32 division
NodeLevel(cluster_info) ==
    IF U32GreaterEq(UnhealthyNodes(cluster_info), cluster_info.nodes_total \div 2)
    THEN "Critical" ELSE "Warning"

\* ClusterUnreachable testing the node count only
ClusterUnreachable_NodesOnly(cluster_info) == cluster_info.nodes_total = 0

\* ClusterUnreachable testing the pod count only
ClusterUnreachable_PodsOnly(cluster_info) == cluster_info.pods_running = 0

\* the condition of the "cluster is completely down" block
ClusterUnreachable(cluster_info) ==
    cluster_info.nodes_total = 0 /\ cluster_info.pods_running = 0

\* KubernetesRule::evaluate, when it returns
KubernetesRule_evaluate(cluster_info, enabled, now, nz) ==
    IF ~enabled THEN << >>
    ELSE
      LET unhealthy_nodes == UnhealthyNodes(cluster_info)
          nodes == IF cluster_info.nodes_total > 0 /\ U32Positive(unhealthy_nodes)
                   THEN << Alert_new(NodeLevel(cluster_info), "Kubernetes",
                                     << "Nodes Not Ready", unhealthy_nodes >>,
                                     << "cluster nodes are not in Ready state", unhealthy_nodes,
                                        cluster_info.nodes_total >>,
                                     "k8s-nodes", now, NonceAt(nz, 1)) >>
                   ELSE << >>
          cluster == IF ClusterUnreachable(cluster_info)
                     THEN << Alert_new("Critical", "Kubernetes",
                                       << "Cluster Unreachable" >>,
                                       << "Unable to connect to Kubernetes cluster or cluster has no nodes" >>,
                                       "k8s-cluster", now,
                                       NonceAt(nz, Len(nodes) + 1)) >>
                     ELSE << >>
      IN  nodes \o cluster

\* KubernetesRule::evaluate panics: the subtraction overflows in a build
\* with overflow checks
KubernetesRule_panics(cluster_info, enabled, overflow_checks) ==
    enabled /\ overflow_checks /\ SubtractionOverflows(cluster_info)

\* KubeVirtRule::evaluate returning the alert whatever `enabled` is
KubeVirtRule_evaluate_AlwaysEnabled(kubevirt_info_, enabled, now, nz) ==
    IF kubevirt_info_.vms_migrating > 0
    THEN << Alert_new("Info", "KubeVirt",
                      << "VMs Migrating", kubevirt_info_.vms_migrating >>,
                      << "virtual machines are currently migrating",
                         kubevirt_info_.vms_migrating >>,
                      "kubevirt-migration", now, NonceAt(nz, 1)) >>
    ELSE << >>

\* KubeVirtRule::evaluate
KubeVirtRule_evaluate(kubevirt_info_, enabled, now, nz) ==
    IF ~enabled THEN << >>
    ELSE IF kubevirt_info_.vms_migrating > 0
    THEN << Alert_new("Info", "KubeVirt",
                      << "VMs Migrating", kubevirt_info_.vms_migrating >>,
                      << "virtual machines are currently migrating",
                         kubevirt_info_.vms_migrating >>,
                      "kubevirt-migration", now, NonceAt(nz, 1)) >>
    ELSE << >>

\* the nonces left after the first k were drawn
Shift(nz, k) == SubSeq(nz, k + 1, Len(nz))

\* AlertManager::evaluate, the collection of candidates: system, then
\* kubernetes, then kubevirt
CollectNewAlerts(metrics, k8s, kv, config, k8s_enabled, kv_enabled, now, nz) ==
    LET s == SystemMetricsRule_evaluate(metrics, config, now, nz)
        k == IF k8s_enabled
             THEN KubernetesRule_evaluate(k8s, TRUE, now, Shift(nz, Len(s)))
             ELSE << >>
        v == IF kv_enabled
             THEN KubeVirtRule_evaluate(kv, TRUE, now, Shift(nz, Len(s) + Len(k)))
             ELSE << >>
    IN  s \o k \o v

NoNonces == << >>

\* ------------------------------------------------------------ alert manager
MapInsert(m, k, v) == [ x \in (DOMAIN m) \cup {k} |-> IF x = k THEN v ELSE m[x] ]

MapRemove(m, k) == [ x \in (DOMAIN m) \ {k} |-> m[x] ]

\* chrono::Duration::num_seconds: whole seconds, truncated towards zero
num_seconds(ms) ==
    IF ms >= 0 THEN ms \div MillisPerSecond ELSE -((-ms) \div MillisPerSecond)

\* format!("{}-{}", category.as_str(), source); a pair, since no category
\* name contains '-'
DedupKey(alert) == << as_str(alert.category), alert.metadata.source >>

\* Suppressed with the window test written `<=` instead of `<`
Suppressed_WindowInclusive(last, alert, now) ==
    LET dedup_key == DedupKey(alert)
    IN  /\ dedup_key \in DOMAIN last
        /\ num_seconds(now - last[dedup_key]) <= dedup_window_seconds

\* the dedup test letting a Critical candidate through
Suppressed_CriticalPasses(last, alert, now) ==
    LET dedup_key == DedupKey(alert)
    IN  /\ dedup_key \in DOMAIN last
        /\ num_seconds(now - last[dedup_key]) < dedup_window_seconds
        /\ alert.level # "Critical"

\* the test of add_alert_with_dedup that discards a candidate
Suppressed(last, alert, now) ==
    LET dedup_key == DedupKey(alert)
    IN  /\ dedup_key \in DOMAIN last
        /\ num_seconds(now - last[dedup_key]) < dedup_window_seconds

\* add_alert_with_dedup merging by key: an admitted alert takes the place of
\* the active alerts of its key
add_alert_with_dedup_MergeByKey(st, alert, now) ==
    IF Suppressed(st.last, alert, now)
    THEN st
    ELSE LET kept == { id \in DOMAIN st.active :
                         DedupKey(st.active[id]) # DedupKey(alert) }
         IN  [ active |-> MapInsert([ id \in kept |-> st.active[id] ],
                                    alert.id, alert),
               last |-> MapInsert(st.last, DedupKey(alert), now) ]

\* add_alert_with_dedup restarting the window of the key when it discards
add_alert_with_dedup_RefreshOnSuppress(st, alert, now) ==
    [ active |-> IF Suppressed(st.last, alert, now)
                 THEN st.active
                 ELSE MapInsert(st.active, alert.id, alert),
      last |-> MapInsert(st.last, DedupKey(alert), now) ]

\* AlertManager::add_alert_with_dedup on the pair (active_alerts, last_triggered)
add_alert_with_dedup(st, alert, now) ==
    IF Suppressed(st.last, alert, now)
    THEN st
    ELSE [ active |-> MapInsert(st.active, alert.id, alert),
           last |-> MapInsert(st.last, DedupKey(alert), now) ]

\* the loop `for alert in new_alerts { self.add_alert_with_dedup(alert) }`
RECURSIVE ProcessNewAlerts(_, _, _)
ProcessNewAlerts(st, alerts, now) ==
    IF alerts = << >> THEN st
    ELSE ProcessNewAlerts(add_alert_with_dedup(st, Head(alerts), now),
                          Tail(alerts), now)

\* should_resolve without the hysteresis margins
should_resolve_NoHysteresis(alert, metrics, k8s) ==
    LET source == alert.metadata.source
        threshold == alert.metadata.threshold
    IN  CASE source = "cpu" ->
               threshold # None /\ metrics.cpu_usage < threshold[1]
          [] source = "memory" ->
               threshold # None /\ MemoryPercent(metrics) < threshold[1]
          [] source = "disk" ->
               threshold # None /\ metrics.disk_usage_percent < threshold[1]
          [] source = "load" ->
               threshold # None /\ metrics.load_avg < threshold[1]
          [] source = "k8s-nodes" ->
               k8s.nodes_ready = k8s.nodes_total /\ k8s.nodes_total > 0
          [] source = "k8s-cluster" ->
               k8s.nodes_total > 0 \/ k8s.pods_running > 0
          [] OTHER -> FALSE

\* the arm "k8s-nodes": resolve if all nodes are healthy
AllNodesReady(k8s) == k8s.nodes_ready = k8s.nodes_total /\ k8s.nodes_total > 0

\* ClusterReachable looking at the node count only
ClusterReachable_NodesOnly(k8s) == k8s.nodes_total > 0

\* the arm "k8s-cluster": resolve if the cluster is reachable
ClusterReachable(k8s) == k8s.nodes_total > 0 \/ k8s.pods_running > 0

\* should_resolve resolving the alerts whose source tag it does not know
should_resolve_UnknownResolves(alert, metrics, k8s) ==
    LET source == alert.metadata.source
        threshold == alert.metadata.threshold
    IN  CASE source = "cpu" ->
               /\ threshold # None
               /\ metrics.cpu_usage < threshold[1] - PercentHysteresis
          [] source = "memory" ->
               /\ threshold # None
               /\ MemoryPercent(metrics) < threshold[1] - PercentHysteresis
          [] source = "disk" ->
               /\ threshold # None
               /\ metrics.disk_usage_percent < threshold[1] - PercentHysteresis
          [] source = "load" ->
               /\ threshold # None
               /\ metrics.load_avg < threshold[1] - LoadHysteresis
          [] source = "k8s-nodes" -> AllNodesReady(k8s)
          [] source = "k8s-cluster" -> ClusterReachable(k8s)
          [] OTHER -> TRUE

\* should_resolve leaving the memory alerts alone when the total is 0
should_resolve_MemoryNeedsTotal(alert, metrics, k8s) ==
    LET source == alert.metadata.source
        threshold == alert.metadata.threshold
    IN  CASE source = "cpu" ->
               /\ threshold # None
               /\ metrics.cpu_usage < threshold[1] - PercentHysteresis
          [] source = "memory" ->
               /\ threshold # None
               /\ metrics.memory_total_gb > 0
               /\ MemoryPercent(metrics) < threshold[1] - PercentHysteresis
          [] source = "disk" ->
               /\ threshold # None
               /\ metrics.disk_usage_percent < threshold[1] - PercentHysteresis
          [] source = "load" ->
               /\ threshold # None
               /\ metrics.load_avg < threshold[1] - LoadHysteresis
          [] source = "k8s-nodes" -> AllNodesReady(k8s)
          [] source = "k8s-cluster" -> ClusterReachable(k8s)
          [] OTHER -> FALSE

\* the match of auto_resolve_alerts on the source tag
should_resolve(alert, metrics, k8s) ==
    LET source == alert.metadata.source
        threshold == alert.metadata.threshold
    IN  CASE source = "cpu" ->
               /\ threshold # None
               /\ metrics.cpu_usage < threshold[1] - PercentHysteresis
          [] source = "memory" ->
               /\ threshold # None
               /\ MemoryPercent(metrics) < threshold[1] - PercentHysteresis
          [] source = "disk" ->
               /\ threshold # None
               /\ metrics.disk_usage_percent < threshold[1] - PercentHysteresis
          [] source = "load" ->
               /\ threshold # None
               /\ metrics.load_avg < threshold[1] - LoadHysteresis
          [] source = "k8s-nodes" -> AllNodesReady(k8s)
          [] source = "k8s-cluster" -> ClusterReachable(k8s)
          [] OTHER -> FALSE

\* the identifiers auto_resolve_alerts collects
ResolveSet(active, metrics, k8s) ==
    { id \in DOMAIN active : should_resolve(active[id], metrics, k8s) }

\* every order in which a HashMap can yield the members of S
Orders(S) ==
    { o \in [ 1..Cardinality(S) -> S ] :
        \A i, j \in 1..Cardinality(S) : i # j => o[i] # o[j] }

\* the second loop of auto_resolve_alerts: remove, resolve, push
RECURSIVE ResolveAll(_, _, _)
ResolveAll(st, ids, now) ==
    IF ids = << >> THEN st
    ELSE LET id == Head(ids)
         IN  IF id \in DOMAIN st.active
             THEN ResolveAll([ active |-> MapRemove(st.active, id),
                               history |-> Append(st.history,
                                                  resolve(st.active[id], now)) ],
                             Tail(ids), now)
             ELSE ResolveAll(st, Tail(ids), now)

\* cleanup_history: the number of entries the cap pass drains
RemoveCount(h) ==
    IF Len(h) > max_history_size THEN Len(h) - max_history_size ELSE 0

HistoryCutoff(now) == now - HistoryMaxAgeDays * MillisPerDay

\* cleanup_history cutting the history at the cap from the wrong end
cleanup_history_KeepOldest(h, now) ==
    LET drained == SubSeq(h, 1, Len(h) - RemoveCount(h))
    IN  SelectSeq(drained, LAMBDA a : a.triggered_at > HistoryCutoff(now))

\* cleanup_history without the age pass
cleanup_history_CapOnly(h, now) == SubSeq(h, RemoveCount(h) + 1, Len(h))

\* cleanup_history without the cap pass
cleanup_history_AgeOnly(h, now) == SelectSeq(h, LAMBDA a : a.triggered_at > HistoryCutoff(now))

\* AlertManager::cleanup_history
cleanup_history(h, now) ==
    LET drained == SubSeq(h, RemoveCount(h) + 1, Len(h))
    IN  SelectSeq(drained, LAMBDA a : a.triggered_at > HistoryCutoff(now))

\* ------------------------------------------------------------------- state
VARIABLES
    active_alerts,          \* AlertManager.active_alerts: id -> Alert
    history,                \* AlertManager.history
    last_triggered,         \* AlertManager.last_triggered: dedup key -> time
    system_alerts_config,   \* AlertManager.system_alerts_config
    kubernetes_enabled,     \* AlertManager.kubernetes_enabled
    kubevirt_enabled,       \* AlertManager.kubevirt_enabled
    clock,                  \* what Local::now() returns, in ms
    system_metrics,         \* the snapshots the last evaluate was given
    k8s_info,
    kubevirt_info,
    alerts,                 \* new_alerts: the candidates the rules returned and
                            \* add_alert_with_dedup has not been given yet
    to_resolve,             \* auto_resolve_alerts: the ids it collected
    remove_count,           \* cleanup_history: entries the cap pass drained
    last_op,                \* the method that returned last
    cycles,                 \* number of evaluate calls so far
    calls,                  \* number of calls of manager methods so far
    last_id,                \* Some(id) after acknowledge_alert(id) or
                            \* dismiss_alert(id) returned last, else None
    current_screen,         \* App.current_screen
    alert_panel_open,       \* App.alert_panel_open
    alert_selected_index,   \* App.alert_selected_index
    use_mock,               \* KubernetesCollector: use_mock || client.is_none()
    run_app,                \* "loop" while run_app loops, then what it returned
    event                   \* what the loop did last, and the collector call
                            \* that returned Err in it, if one did

\* ------------------------------------------------------------ the queries
\* `level as u8`: the discriminant of the variant in declaration order
LevelAsU8(level) ==
    CASE level = "Info" -> 0
      [] level = "Warning" -> 1
      [] level = "Error" -> 2
      [] level = "Critical" -> 3

\* the comparator of get_active_alerts putting the older of two alerts of a
\* level first
SortsBefore_OldestFirst(a, b) ==
    \/ LevelAsU8(a.level) > LevelAsU8(b.level)
    \/ /\ LevelAsU8(a.level) = LevelAsU8(b.level)
       /\ a.triggered_at < b.triggered_at

\* the closure of sort_by returns Less: the level comparison reversed, and
\* on equal levels b.triggered_at.cmp(&a.triggered_at)
SortsBefore(a, b) ==
    \/ LevelAsU8(a.level) > LevelAsU8(b.level)
    \/ /\ LevelAsU8(a.level) = LevelAsU8(b.level)
       /\ b.triggered_at < a.triggered_at

\* sort_by is stable: an element goes behind the sorted elements that came
\* before it in the input and compare Less or Equal to it
RECURSIVE StableInsert(_, _)
StableInsert(sorted, a) ==
    IF sorted = << >> THEN << a >>
    ELSE IF SortsBefore(a, Head(sorted)) THEN << a >> \o sorted
    ELSE << Head(sorted) >> \o StableInsert(Tail(sorted), a)

\* AlertManager::get_active_alerts on the alerts as values() yields them
RECURSIVE get_active_alerts(_)
get_active_alerts(values) ==
    IF values = << >> THEN << >>
    ELSE StableInsert(get_active_alerts(SubSeq(values, 1, Len(values) - 1)),
                      values[Len(values)])

\* what active_alerts.values() can yield: the alerts in any order
Values(active) ==
    { [ i \in 1..Len(ord) |-> active[ord[i]] ] : ord \in Orders(DOMAIN active) }

\* has_critical_alerts counting an acknowledged Critical alert as well
RECURSIVE has_critical_alerts_AnyStatus(_)
has_critical_alerts_AnyStatus(values) ==
    /\ values # << >>
    /\ \/ Head(values).level = "Critical"
       \/ has_critical_alerts_AnyStatus(Tail(values))

\* AlertManager::has_critical_alerts: any() over values()
RECURSIVE has_critical_alerts(_)
has_critical_alerts(values) ==
    /\ values # << >>
    /\ \/ Head(values).level = "Critical" /\ Head(values).status = "Active"
       \/ has_critical_alerts(Tail(values))

\* AlertManager::get_alerts_by_level: filter over values()
get_alerts_by_level(values, level) ==
    SelectSeq(values, LAMBDA a : a.level = level)

\* one round of the loop of get_alert_counts on (critical, error, warning, info)
CountLevel(counts, level) ==
    CASE level = "Critical" -> [ counts EXCEPT ![1] = @ + 1 ]
      [] level = "Error" -> [ counts EXCEPT ![2] = @ + 1 ]
      [] level = "Warning" -> [ counts EXCEPT ![3] = @ + 1 ]
      [] level = "Info" -> [ counts EXCEPT ![4] = @ + 1 ]

\* get_alert_counts leaving acknowledged alerts out
RECURSIVE get_alert_counts_ActiveOnly(_)
get_alert_counts_ActiveOnly(values) ==
    IF values = << >> THEN << 0, 0, 0, 0 >>
    ELSE LET counts == get_alert_counts_ActiveOnly(SubSeq(values, 1, Len(values) - 1))
             a == values[Len(values)]
         IN  IF a.status = "Active" THEN CountLevel(counts, a.level) ELSE counts

\* AlertManager::get_alert_counts
RECURSIVE get_alert_counts(_)
get_alert_counts(values) ==
    IF values = << >> THEN << 0, 0, 0, 0 >>
    ELSE CountLevel(get_alert_counts(SubSeq(values, 1, Len(values) - 1)),
                    values[Len(values)].level)

\* AlertManager::active_count
active_count(active) == Cardinality(DOMAIN active)

\* AlertManager::has_active_alerts
has_active_alerts(active) == ~(active = << >>)

vars == << active_alerts, history, last_triggered, system_alerts_config,
           kubernetes_enabled, kubevirt_enabled, clock, system_metrics,
           k8s_info, kubevirt_info, alerts, to_resolve, remove_count,
           last_op, cycles, calls, last_id, current_screen, alert_panel_open,
           alert_selected_index, use_mock, run_app, event >>

\* the manager, the clock and the snapshots
manager_vars == << active_alerts, history, last_triggered, system_alerts_config,
                   kubernetes_enabled, kubevirt_enabled, clock, system_metrics,
                   k8s_info, kubevirt_info, alerts, to_resolve, remove_count,
                   last_op, cycles, calls, last_id >>

\* the fields of the App next to its manager and its snapshots
app_vars == << current_screen, alert_panel_open, alert_selected_index,
              use_mock, run_app, event >>

config_vars == << system_alerts_config, kubernetes_enabled, kubevirt_enabled >>

snapshot_vars == << system_metrics, k8s_info, kubevirt_info >>

cycle_vars == << to_resolve, remove_count >>

\* ------------------------------------------------------------------ inputs
Metrics(cpu, used, total, disk, load) ==
    [ cpu_usage |-> cpu, memory_used_gb |-> used, memory_total_gb |-> total,
      disk_usage_percent |-> disk, load_avg |-> load ]

K8s(ready, total, pods) ==
    [ nodes_ready |-> ready, nodes_total |-> total, pods_running |-> pods ]

KubeVirt(migrating) == [ vms_migrating |-> migrating ]

Snapshot(m, k, v) == [ m |-> m, k |-> k, v |-> v ]

\* the snapshots a cycle is given: every metric just below its hysteresis
\* cutoff, every metric exactly at it, warning, critical with a second
\* system alert, no memory with the cluster down, disk with a node down,
\* migrating VMs
Snapshots ==
    { Snapshot(Metrics(74, 79, 100, 79, 7), K8s(3, 3, 45), KubeVirt(0)),
      Snapshot(Metrics(75, 80, 100, 80, 8), K8s(3, 3, 45), KubeVirt(0)),
      Snapshot(Metrics(85, 79, 100, 79, 7), K8s(3, 3, 45), KubeVirt(0)),
      Snapshot(Metrics(95, 9, 10, 79, 7), K8s(3, 3, 45), KubeVirt(0)),
      Snapshot(Metrics(75, 0, 0, 79, 12), K8s(0, 0, 0), KubeVirt(0)),
      Snapshot(Metrics(74, 79, 100, 88, 7), K8s(2, 3, 45), KubeVirt(0)),
      Snapshot(Metrics(74, 79, 100, 79, 7), K8s(3, 3, 45), KubeVirt(2)) }

\* the instants at which the program is called: 1 ms before the dedup window
\* of instant 0 ends, at its end, and 7 days after instant 299999, when an
\* alert of instant 0 is older than 7 days, one of 299999 is 7 days old and
\* one of 300000 is younger
TimePoints == {299999, 300000, 605099999}

\* what Local::now() can return to a call: the instant of the previous call
\* or a later one
Times == { t \in TimePoints \cup {clock} : t >= clock }

\* an identifier no Alert::new produces (no evaluator uses category Service)
UnknownId == << "service", 0, 0 >>

\* the identifiers the user commands are tried with
CommandIds ==
    (DOMAIN active_alerts) \cup {UnknownId}
    \cup (IF history = << >> THEN {} ELSE { history[Len(history)].id })

\* ------------------------------------------------------------------- Init
\* App::new: the Logs screen, the alert panel closed, the first alert
\* selected; run_app has entered its loop
AppNew ==
    /\ current_screen = "Logs"
    /\ alert_panel_open = FALSE
    /\ alert_selected_index = 0
    /\ run_app = "loop"
    /\ event = << "new", None >>

\* AlertManager::new with the configuration App::new passes in
Init ==
    /\ active_alerts = << >>
    /\ history = << >>
    /\ last_triggered = << >>
    /\ system_alerts_config = SystemAlertDefault
    /\ kubernetes_enabled = TRUE
    /\ kubevirt_enabled = TRUE
    /\ clock = 0
    /\ system_metrics = SystemMetricsDefault
    /\ k8s_info = K8sInfoInitial
    /\ kubevirt_info = KubeVirtInfoInitial
    /\ alerts = << >>
    /\ to_resolve = << >>
    /\ remove_count = 0
    /\ last_op = "new"
    /\ cycles = 0
    /\ calls = 0
    /\ last_id = None
    /\ AppNew
    /\ use_mock = TRUE

\* ---------------------------------------------------------------- actions
\* the nonces in use in identifiers of the given category and millisecond
UsedNonces(category_str, millis) ==
    LET Same(id) == id[1] = category_str /\ id[2] = millis
    IN  { id[3] : id \in { i \in DOMAIN active_alerts : Same(i) } }
        \cup { history[j].id[3] : j \in { i \in 1..Len(history) : Same(history[i].id) } }

LeastUnused(S) == CHOOSE x \in 0..Cardinality(S) : x \notin S

\* the draws nzs of the first k - 1 candidates, each extended by what the
\* draw of candidate k can return: a nonce in use for the candidate's
\* category and millisecond, or the least unused one
RECURSIVE ExtendDraws(_, _, _, _)
ExtendDraws(shape, used, nzs, k) ==
    IF k > Len(shape) THEN nzs
    ELSE LET InUse(nz) ==
                 used[shape[k].id[1]]
                 \cup { nz[j] : j \in { i \in 1..(k - 1) :
                                          shape[i].id[1] = shape[k].id[1] } }
         IN  ExtendDraws(shape, used,
                         UNION { { Append(nz, x) :
                                     x \in InUse(nz) \cup { LeastUnused(InUse(nz)) } } :
                                 nz \in nzs },
                         k + 1)

\* what the rand::random::<u32>() calls of one cycle can return, one nonce
\* per candidate
NonceDraws(metrics, k8s, kv, now) ==
    LET shape == CollectNewAlerts(metrics, k8s, kv, system_alerts_config,
                                  kubernetes_enabled, kubevirt_enabled,
                                  now, NoNonces)
        used == [ c \in { shape[k].id[1] : k \in 1..Len(shape) } |->
                    UsedNonces(c, now) ]
    IN  ExtendDraws(shape, used, { << >> }, 1)

\* AlertManager::evaluate
Evaluate(metrics, k8s, kv, now) ==
    /\ calls < MaxCalls
    /\ \E nz \in NonceDraws(metrics, k8s, kv, now) :
         LET cands == CollectNewAlerts(metrics, k8s, kv, system_alerts_config,
                                       kubernetes_enabled, kubevirt_enabled,
                                       now, nz)
             st1 == ProcessNewAlerts([ active |-> active_alerts,
                                       last |-> last_triggered ],
                                     cands, now)
         IN  /\ Cardinality(DOMAIN st1.active) <= MaxActive
             /\ \E ord \in Orders(ResolveSet(st1.active, metrics, k8s)) :
                  LET st2 == ResolveAll([ active |-> st1.active,
                                          history |-> history ], ord, now)
                  IN  /\ active_alerts' = st2.active
                      /\ history' = cleanup_history(st2.history, now)
                      /\ remove_count' = RemoveCount(st2.history)
                      /\ to_resolve' = ord
             /\ last_triggered' = st1.last
    /\ system_metrics' = metrics
    /\ k8s_info' = k8s
    /\ kubevirt_info' = kv
    /\ last_op' = "evaluate"
    /\ cycles' = cycles + 1
    /\ clock' = now
    /\ calls' = calls + 1
    /\ last_id' = None
    /\ UNCHANGED << config_vars, alerts >>

\* AlertManager::acknowledge_alert; Alert::acknowledge reads Local::now()
AcknowledgeAlert(id, now) ==
    /\ calls < MaxCalls
    /\ active_alerts' =
         IF id \in DOMAIN active_alerts
         THEN [ active_alerts EXCEPT ![id] = acknowledge(@, now) ]
         ELSE active_alerts
    /\ clock' = now
    /\ last_op' = "acknowledge_alert"
    /\ last_id' = Some(id)
    /\ calls' = calls + 1
    /\ UNCHANGED << history, last_triggered, config_vars, snapshot_vars,
                    alerts, cycle_vars, cycles >>

\* dismiss_alert draining the active set when the identifier is not in it
DismissAlert_MissDrains(id) ==
    /\ calls < MaxCalls
    /\ IF id \in DOMAIN active_alerts
       THEN /\ active_alerts' = MapRemove(active_alerts, id)
            /\ history' = Append(history, dismiss(active_alerts[id]))
       ELSE /\ \E ord \in Orders(DOMAIN active_alerts) :
                 history' = history \o [ i \in 1..Len(ord) |-> dismiss(active_alerts[ord[i]]) ]
            /\ active_alerts' = << >>
    /\ last_op' = "dismiss_alert"
    /\ last_id' = Some(id)
    /\ calls' = calls + 1
    /\ UNCHANGED << last_triggered, config_vars, clock, snapshot_vars,
                    alerts, cycle_vars, cycles >>

\* dismiss_alert removing the dedup entry of the alert it dismisses
DismissAlert_ForgetsKey(id) ==
    /\ calls < MaxCalls
    /\ IF id \in DOMAIN active_alerts
       THEN /\ active_alerts' = MapRemove(active_alerts, id)
            /\ history' = Append(history, dismiss(active_alerts[id]))
            /\ last_triggered' = MapRemove(last_triggered, DedupKey(active_alerts[id]))
       ELSE UNCHANGED << active_alerts, history, last_triggered >>
    /\ last_op' = "dismiss_alert"
    /\ last_id' = Some(id)
    /\ calls' = calls + 1
    /\ UNCHANGED << config_vars, clock, snapshot_vars, alerts, cycle_vars, cycles >>

\* AlertManager::dismiss_alert
DismissAlert(id) ==
    /\ calls < MaxCalls
    /\ IF id \in DOMAIN active_alerts
       THEN /\ active_alerts' = MapRemove(active_alerts, id)
            /\ history' = Append(history, dismiss(active_alerts[id]))
       ELSE UNCHANGED << active_alerts, history >>
    /\ last_op' = "dismiss_alert"
    /\ last_id' = Some(id)
    /\ calls' = calls + 1
    /\ UNCHANGED << last_triggered, config_vars, clock, snapshot_vars,
                    alerts, cycle_vars, cycles >>

\* dismiss_all draining the active set without pushing to the history
DismissAll_DropsAlerts ==
    /\ calls < MaxCalls
    /\ history' = history
    /\ active_alerts' = << >>
    /\ last_op' = "dismiss_all"
    /\ last_id' = None
    /\ calls' = calls + 1
    /\ UNCHANGED << last_triggered, config_vars, clock, snapshot_vars,
                    alerts, cycle_vars, cycles >>

\* AlertManager::dismiss_all: drain() yields the alerts in any order
DismissAll ==
    /\ calls < MaxCalls
    /\ \E ord \in Orders(DOMAIN active_alerts) :
         history' = history \o [ i \in 1..Len(ord) |-> dismiss(active_alerts[ord[i]]) ]
    /\ active_alerts' = << >>
    /\ last_op' = "dismiss_all"
    /\ last_id' = None
    /\ calls' = calls + 1
    /\ UNCHANGED << last_triggered, config_vars, clock, snapshot_vars,
                    alerts, cycle_vars, cycles >>

Next ==
    \/ (\E s \in Snapshots, now \in Times : Evaluate(s.m, s.k, s.v, now)) /\ UNCHANGED app_vars
    \/ (\E id \in CommandIds, now \in Times : AcknowledgeAlert(id, now)) /\ UNCHANGED app_vars
    \/ (\E id \in CommandIds : DismissAlert(id)) /\ UNCHANGED app_vars
    \/ DismissAll /\ UNCHANGED app_vars

Spec == Init /\ [][Next]_vars

\* ------------------------------------------------- a manager with a full history
\* A state of a long run.  VMs were migrating at instant 0 and the user
\* dismissed that alert last.  From instant 300 s on, cpu, memory, disk and
\* load were high every 300 s (load not the last time) and back to normal 2 s
\* later, which resolved the alerts of the round.
RoundMetrics == Metrics(85, 9, 10, 88, 12)

CalmMetrics == Metrics(74, 79, 100, 79, 7)

\* four system alerts a round fill the history to its cap
FullRounds == max_history_size \div 4

RoundTime(r) == r * dedup_window_seconds * MillisPerSecond

ResolveDelay == 2000

HistoryRound(r) ==
    LET raised == SystemMetricsRule_evaluate(RoundMetrics, SystemAlertDefault,
                                             RoundTime(r), << 0, 1, 2, 3 >>)
    IN  [ i \in 1..4 |-> resolve(raised[i], RoundTime(r) + ResolveDelay) ]

MigrationAlert ==
    dismiss(KubeVirtRule_evaluate(KubeVirt(2), TRUE, 0, << 0 >>)[1])

FullHistory ==
    [ i \in 1..(4 * FullRounds - 1) |-> HistoryRound(1 + ((i - 1) \div 4))[1 + ((i - 1) % 4)] ]
    \o << MigrationAlert >>

InitFull ==
    /\ active_alerts = << >>
    /\ history = FullHistory
    /\ last_triggered =
         [ k \in { << "system", "cpu" >>, << "system", "memory" >>,
                   << "system", "disk" >>, << "system", "load" >>,
                   << "kubevirt", "kubevirt-migration" >> } |->
             IF k[1] = "kubevirt" THEN 0
             ELSE IF k[2] = "load" THEN RoundTime(FullRounds - 1)
             ELSE RoundTime(FullRounds) ]
    /\ system_alerts_config = SystemAlertDefault
    /\ kubernetes_enabled = TRUE
    /\ kubevirt_enabled = TRUE
    /\ clock = RoundTime(FullRounds) + ResolveDelay
    /\ system_metrics = CalmMetrics
    /\ k8s_info = K8s(3, 3, 45)
    /\ kubevirt_info = KubeVirt(0)
    /\ alerts = << >>
    /\ to_resolve = << >>
    /\ remove_count = 0
    /\ last_op = "dismiss_alert"
    /\ cycles = 0
    /\ calls = 0
    /\ last_id = None
    /\ AppNew
    /\ use_mock = TRUE

\* the snapshots the cycles of this manager are given: all normal, load high
\* with the cluster down, VMs migrating
FullSnapshots ==
    { Snapshot(CalmMetrics, K8s(3, 3, 45), KubeVirt(0)),
      Snapshot(Metrics(75, 0, 0, 79, 12), K8s(0, 0, 0), KubeVirt(0)),
      Snapshot(CalmMetrics, K8s(3, 3, 45), KubeVirt(2)) }

NextFull ==
    \/ (\E s \in FullSnapshots, now \in Times : Evaluate(s.m, s.k, s.v, now)) /\ UNCHANGED app_vars
    \/ (\E id \in CommandIds, now \in Times : AcknowledgeAlert(id, now)) /\ UNCHANGED app_vars
    \/ (\E id \in CommandIds : DismissAlert(id)) /\ UNCHANGED app_vars
    \/ DismissAll /\ UNCHANGED app_vars

SpecFull == InitFull /\ [][NextFull]_vars

\* --------------------------------------------- one cycle, statement by statement
\* AlertManager::evaluate followed through its body: the candidates are
\* collected, add_alert_with_dedup takes them one by one, auto_resolve_alerts
\* runs, cleanup_history runs.  The cycle starts in a manager that has run one
\* cycle at instant 0 and was then left alone, acknowledged or cleared.
EmptyManager == [ active |-> << >>, last |-> << >> ]

DistinctNonces == << 0, 1, 2, 3, 4, 5, 6 >>

\* the candidates of the cycle at instant 0
FirstCandidates(s) ==
    CollectNewAlerts(s.m, s.k, s.v, SystemAlertDefault, TRUE, TRUE, 0, DistinctNonces)

FirstCycle(s) == ProcessNewAlerts(EmptyManager, FirstCandidates(s), 0)

\* the manager after the cycle at instant 0: untouched, every alert
\* acknowledged, every alert dismissed
PriorManagers ==
    UNION { { [ active |-> FirstCycle(s).active,
                history |-> << >>,
                last |-> FirstCycle(s).last ],
              [ active |-> [ id \in DOMAIN FirstCycle(s).active |->
                               acknowledge(FirstCycle(s).active[id], 0) ],
                history |-> << >>,
                last |-> FirstCycle(s).last ],
              [ active |-> << >>,
                history |-> [ i \in 1..Len(FirstCandidates(s)) |->
                                dismiss(FirstCandidates(s)[i]) ],
                last |-> FirstCycle(s).last ] } : s \in Snapshots }

\* the instants of the cycle that is followed
CycleTimes == {0} \cup TimePoints

\* the snapshots of the cycle that is followed: those of Spec, a cluster
\* without nodes whose pods run, and one that reports more nodes ready than
\* it has (in a build where the subtraction wraps)
CycleSnapshots ==
    Snapshots
    \cup { Snapshot(CalmMetrics, K8s(0, 0, 45), KubeVirt(0)),
           Snapshot(CalmMetrics, K8s(4, 3, 45), KubeVirt(0)) }

\* evaluate has collected new_alerts and is about to enter its loop
InitCycle ==
    /\ \E p \in PriorManagers :
         /\ active_alerts = p.active
         /\ history = p.history
         /\ last_triggered = p.last
    /\ system_alerts_config = SystemAlertDefault
    /\ kubernetes_enabled = TRUE
    /\ kubevirt_enabled = TRUE
    /\ clock \in CycleTimes
    /\ \E s \in CycleSnapshots :
         /\ system_metrics = s.m
         /\ k8s_info = s.k
         /\ kubevirt_info = s.v
    /\ alerts \in { CollectNewAlerts(system_metrics, k8s_info, kubevirt_info,
                                     system_alerts_config, kubernetes_enabled,
                                     kubevirt_enabled, clock, nz) :
                      nz \in NonceDraws(system_metrics, k8s_info, kubevirt_info, clock) }
    /\ to_resolve = << >>
    /\ remove_count = 0
    /\ last_op = "AlertRule::evaluate"
    /\ cycles = 1
    /\ calls = 1
    /\ last_id = None
    /\ AppNew
    /\ use_mock = TRUE

\* one turn of `for alert in new_alerts { self.add_alert_with_dedup(alert) }`
AddAlertWithDedupStep ==
    /\ last_op \in {"AlertRule::evaluate", "add_alert_with_dedup"}
    /\ alerts # << >>
    /\ LET st == add_alert_with_dedup([ active |-> active_alerts,
                                        last |-> last_triggered ],
                                      Head(alerts), clock)
       IN  /\ active_alerts' = st.active
           /\ last_triggered' = st.last
    /\ alerts' = Tail(alerts)
    /\ last_op' = "add_alert_with_dedup"
    /\ UNCHANGED << history, config_vars, clock, snapshot_vars, cycle_vars,
                    cycles, calls, last_id >>

\* self.auto_resolve_alerts(...), once the loop is over
AutoResolveAlertsStep ==
    /\ last_op \in {"AlertRule::evaluate", "add_alert_with_dedup"}
    /\ alerts = << >>
    /\ \E ord \in Orders(ResolveSet(active_alerts, system_metrics, k8s_info)) :
         LET st == ResolveAll([ active |-> active_alerts, history |-> history ],
                              ord, clock)
         IN  /\ active_alerts' = st.active
             /\ history' = st.history
             /\ to_resolve' = ord
    /\ last_op' = "auto_resolve_alerts"
    /\ UNCHANGED << last_triggered, config_vars, clock, snapshot_vars, alerts,
                    remove_count, cycles, calls, last_id >>

\* self.cleanup_history(), the last statement of evaluate
CleanupHistoryStep ==
    /\ last_op = "auto_resolve_alerts"
    /\ history' = cleanup_history(history, clock)
    /\ remove_count' = RemoveCount(history)
    /\ last_op' = "cleanup_history"
    /\ UNCHANGED << active_alerts, last_triggered, config_vars, clock,
                    snapshot_vars, alerts, to_resolve, cycles, calls, last_id >>

NextCycle ==
    \/ AddAlertWithDedupStep /\ UNCHANGED app_vars
    \/ AutoResolveAlertsStep /\ UNCHANGED app_vars
    \/ CleanupHistoryStep /\ UNCHANGED app_vars

SpecCycle == InitCycle /\ [][NextCycle]_vars

\* ------------------------------------------------- the rule evaluators alone
\* The inputs of one SystemMetricsRule::evaluate call: every metric below,
\* at and above its thresholds, memory with and without a total.
RuleMetrics ==
    { Metrics(c, m[1], m[2], d, l) :
        c \in {79, 80, 94, 95},
        m \in { << 0, 0 >>, << 5, 0 >>, << 84, 100 >>, << 85, 100 >>, << 95, 100 >> },
        d \in {84, 85, 95},
        l \in {9, 10, 20} }

\* the defaults, dimensions switched off, warning = critical, a
\* configuration whose cpu warning threshold lies above the critical one,
\* and one whose memory critical threshold is 0
RuleConfigs ==
    { SystemAlertDefault,
      [ SystemAlertDefault EXCEPT !.cpu_enabled = FALSE, !.load_enabled = FALSE ],
      [ SystemAlertDefault EXCEPT !.memory_enabled = FALSE, !.disk_enabled = FALSE ],
      [ SystemAlertDefault EXCEPT !.cpu_warning_threshold = 95,
                                  !.memory_warning_threshold = 95,
                                  !.disk_critical_threshold = 85,
                                  !.load_critical_threshold = 10 ],
      [ SystemAlertDefault EXCEPT !.cpu_warning_threshold = 95,
                                  !.cpu_critical_threshold = 80 ],
      [ SystemAlertDefault EXCEPT !.memory_critical_threshold = 0 ] }

\* the four nonces of one call: all different, or all the same
RuleNonces == { << 0, 1, 2, 3 >>, << 0, 0, 0, 0 >> }

InitRules ==
    /\ active_alerts = << >>
    /\ history = << >>
    /\ last_triggered = << >>
    /\ system_alerts_config \in RuleConfigs
    /\ kubernetes_enabled = TRUE
    /\ kubevirt_enabled = TRUE
    /\ clock = 0
    /\ system_metrics \in RuleMetrics
    /\ k8s_info = K8sInfoInitial
    /\ kubevirt_info = KubeVirtInfoInitial
    /\ alerts = << >>
    /\ to_resolve = << >>
    /\ remove_count = 0
    /\ last_op = "new"
    /\ cycles = 0
    /\ calls = 0
    /\ last_id = None
    /\ AppNew
    /\ use_mock = TRUE

\* one call of SystemMetricsRule::evaluate on the snapshot and configuration
RunSystemMetricsRule ==
    /\ last_op = "new"
    /\ \E nz \in RuleNonces :
         alerts' = SystemMetricsRule_evaluate(system_metrics, system_alerts_config,
                                              clock, nz)
    /\ last_op' = "SystemMetricsRule::evaluate"
    /\ UNCHANGED << active_alerts, history, last_triggered, config_vars, clock,
                    snapshot_vars, cycle_vars, cycles, calls, last_id >>

NextRules == RunSystemMetricsRule /\ UNCHANGED app_vars

SpecRules == InitRules /\ [][NextRules]_vars

\* ------------------------------ the cluster evaluators and the manager's toggles
\* The inputs of one KubernetesRule::evaluate call: every pair of node counts
\* up to MaxNodes, nodes_ready above nodes_total included, with and without
\* running pods.
ClusterInfos ==
    { K8s(r, t, p) : r \in 0..MaxNodes, t \in 0..MaxNodes, p \in {0, 45} }

KubeVirtInfos == { KubeVirt(n) : n \in 0..2 }

\* the two nonces of one call: different, or the same
ClusterNonces == { << 0, 1 >>, << 0, 0 >> }

\* the snapshots the cycles of this manager are given: all nodes ready, one
\* of three not ready, the cluster down, more nodes ready than there are;
\* with and without migrating VMs
ClusterSnapshots ==
    { Snapshot(CalmMetrics, k, v) :
        k \in { K8s(3, 3, 45), K8s(2, 3, 45), K8s(0, 0, 0), K8s(4, 3, 45) },
        v \in { KubeVirt(0), KubeVirt(2) } }

\* AlertManager::new().with_kubernetes_enabled(_).with_kubevirt_enabled(_)
InitCluster ==
    /\ active_alerts = << >>
    /\ history = << >>
    /\ last_triggered = << >>
    /\ system_alerts_config = SystemAlertDefault
    /\ kubernetes_enabled \in BOOLEAN
    /\ kubevirt_enabled \in BOOLEAN
    /\ clock = 0
    /\ system_metrics = SystemMetricsDefault
    /\ k8s_info = K8sInfoInitial
    /\ kubevirt_info = KubeVirtInfoInitial
    /\ alerts = << >>
    /\ to_resolve = << >>
    /\ remove_count = 0
    /\ last_op = "new"
    /\ cycles = 0
    /\ calls = 0
    /\ last_id = None
    /\ AppNew
    /\ use_mock = TRUE

\* one call of KubernetesRule::evaluate; the field `enabled` of the rule has
\* the value of kubernetes_enabled
RunKubernetesRule ==
    /\ last_op = "new"
    /\ \E c \in ClusterInfos, nz \in ClusterNonces, overflow_checks \in BOOLEAN :
         /\ k8s_info' = c
         /\ IF KubernetesRule_panics(c, kubernetes_enabled, overflow_checks)
            THEN /\ alerts' = << >>
                 /\ last_op' = "panic"
            ELSE /\ alerts' = KubernetesRule_evaluate(c, kubernetes_enabled, clock, nz)
                 /\ last_op' = "KubernetesRule::evaluate"
    /\ UNCHANGED << active_alerts, history, last_triggered, config_vars, clock,
                    system_metrics, kubevirt_info, cycle_vars, cycles, calls, last_id >>

\* one call of KubeVirtRule::evaluate; the field `enabled` of the rule has
\* the value of kubevirt_enabled
RunKubeVirtRule ==
    /\ last_op = "new"
    /\ \E v \in KubeVirtInfos, nz \in ClusterNonces :
         /\ kubevirt_info' = v
         /\ alerts' = KubeVirtRule_evaluate(v, kubevirt_enabled, clock, nz)
    /\ last_op' = "KubeVirtRule::evaluate"
    /\ UNCHANGED << active_alerts, history, last_triggered, config_vars, clock,
                    system_metrics, k8s_info, cycle_vars, cycles, calls, last_id >>

\* AlertManager::evaluate up to its loop: the three rules are evaluated and
\* new_alerts is collected, unless KubernetesRule::evaluate panics
CollectNewAlertsStep ==
    /\ last_op \in {"new", "cleanup_history"}
    /\ cycles < MaxClusterCycles
    /\ \E s \in ClusterSnapshots, now \in Times, overflow_checks \in BOOLEAN :
         /\ system_metrics' = s.m
         /\ k8s_info' = s.k
         /\ kubevirt_info' = s.v
         /\ clock' = now
         /\ IF kubernetes_enabled /\ KubernetesRule_panics(s.k, TRUE, overflow_checks)
            THEN /\ alerts' = << >>
                 /\ last_op' = "panic"
            ELSE /\ alerts' \in { CollectNewAlerts(s.m, s.k, s.v, system_alerts_config,
                                                   kubernetes_enabled, kubevirt_enabled,
                                                   now, nz) :
                                    nz \in NonceDraws(s.m, s.k, s.v, now) }
                 /\ last_op' = "AlertRule::evaluate"
    /\ cycles' = cycles + 1
    /\ calls' = calls + 1
    /\ UNCHANGED << active_alerts, history, last_triggered, config_vars,
                    cycle_vars, last_id >>

NextCluster ==
    \/ RunKubernetesRule /\ UNCHANGED app_vars
    \/ RunKubeVirtRule /\ UNCHANGED app_vars
    \/ CollectNewAlertsStep /\ UNCHANGED app_vars
    \/ AddAlertWithDedupStep /\ UNCHANGED app_vars
    \/ AutoResolveAlertsStep /\ UNCHANGED app_vars
    \/ CleanupHistoryStep /\ UNCHANGED app_vars

SpecCluster == InitCluster /\ [][NextCluster]_vars

\* ------------------------------------------------- the App and the loop of run_app
\* the keys the two match statements of run_app name, and Enter for one of
\* the keys that fall to `_ => {}`
KeyCodes == { "Esc", "Up", "Down", "d", "D", "a", "q", "r", "F1", "F2", "F3", "Enter" }

\* what the collectors return when their calls succeed: a quiet host, a busy
\* host with a node down, a loaded host whose cluster reports nothing
AppSnapshots ==
    { Snapshot(CalmMetrics, K8s(3, 3, 45), KubeVirt(0)),
      Snapshot(Metrics(95, 9, 10, 79, 7), K8s(2, 3, 45), KubeVirt(0)),
      Snapshot(Metrics(74, 79, 100, 79, 12), K8s(0, 0, 0), KubeVirt(2)) }

\* collect_cluster_info returning Ok: mock_cluster_info without a client
ClusterResult(s) == IF use_mock THEN K8s(3, 3, 45) ELSE s.k

\* collect_kubevirt_info: mock_kubevirt_info without a client and when the
\* API call fails
KubeVirtResults(s) == IF use_mock THEN { KubeVirt(0) } ELSE { s.v, KubeVirt(0) }

\* main starts run_app on the App that App::new returned, with or without a
\* Kubernetes client
InitApp ==
    /\ active_alerts = << >>
    /\ history = << >>
    /\ last_triggered = << >>
    /\ system_alerts_config = SystemAlertDefault
    /\ kubernetes_enabled = TRUE
    /\ kubevirt_enabled = TRUE
    /\ clock = 0
    /\ system_metrics = SystemMetricsDefault
    /\ k8s_info = K8sInfoInitial
    /\ kubevirt_info = KubeVirtInfoInitial
    /\ alerts = << >>
    /\ to_resolve = << >>
    /\ remove_count = 0
    /\ last_op = "new"
    /\ cycles = 0
    /\ calls = 0
    /\ last_id = None
    /\ AppNew
    /\ use_mock \in BOOLEAN

\* App::toggle_alert_panel
toggle_alert_panel ==
    /\ alert_panel_open' = ~alert_panel_open
    /\ alert_selected_index' = IF ~alert_panel_open THEN 0 ELSE alert_selected_index
    /\ UNCHANGED << manager_vars, current_screen, use_mock, run_app >>

\* App::alert_navigate_up
alert_navigate_up ==
    /\ alert_selected_index' =
         IF alert_selected_index > 0 THEN alert_selected_index - 1
         ELSE alert_selected_index
    /\ UNCHANGED << manager_vars, current_screen, alert_panel_open, use_mock, run_app >>

\* App::alert_navigate_down
alert_navigate_down ==
    /\ LET alert_count == active_count(active_alerts)
           last == IF alert_count = 0 THEN 0 ELSE alert_count - 1
       IN  alert_selected_index' =
             IF alert_selected_index < last THEN alert_selected_index + 1
             ELSE alert_selected_index
    /\ UNCHANGED << manager_vars, current_screen, alert_panel_open, use_mock, run_app >>

\* App::dismiss_selected_alert: the alert at the selected position of
\* get_active_alerts, if there is one, is dismissed and the selection kept
\* inside the list
dismiss_selected_alert ==
    /\ \E values \in Values(active_alerts) :
         LET listed == get_active_alerts(values)
         IN  IF alert_selected_index < Len(listed)
             THEN /\ DismissAlert(listed[alert_selected_index + 1].id)
                  /\ LET new_count == active_count(active_alerts')
                     IN  alert_selected_index' =
                           IF alert_selected_index >= new_count /\ new_count > 0
                           THEN new_count - 1
                           ELSE alert_selected_index
             ELSE UNCHANGED << manager_vars, alert_selected_index >>
    /\ UNCHANGED << current_screen, alert_panel_open, use_mock, run_app >>

\* App::dismiss_all_alerts
dismiss_all_alerts ==
    /\ DismissAll
    /\ alert_selected_index' = 0
    /\ UNCHANGED << current_screen, alert_panel_open, use_mock, run_app >>

\* refresh handing the collected snapshots to the manager
refresh_Evaluates ==
    /\ \E s \in AppSnapshots, now \in Times :
         \E kv \in KubeVirtResults(s) : Evaluate(s.m, ClusterResult(s), kv, now)
    /\ UNCHANGED << current_screen, alert_panel_open, alert_selected_index,
                    use_mock, run_app >>

\* App::refresh when every collector call returns Ok: the snapshots are
\* replaced, the manager is not called
refresh ==
    /\ \E s \in AppSnapshots :
         /\ system_metrics' = s.m
         /\ k8s_info' = ClusterResult(s)
         /\ kubevirt_info' \in KubeVirtResults(s)
    /\ UNCHANGED << active_alerts, history, last_triggered, config_vars, clock,
                    alerts, cycle_vars, last_op, cycles, calls, last_id >>
    /\ UNCHANGED << current_screen, alert_panel_open, alert_selected_index,
                    use_mock, run_app >>

\* `if event::poll(..)? { if let Event::Key(key) = event::read()? { .. } }`
\* with the alert panel open
PanelKey(key) ==
    /\ run_app = "loop"
    /\ alert_panel_open
    /\ CASE key = "Esc" -> toggle_alert_panel
         [] key = "Up" -> alert_navigate_up
         [] key = "Down" -> alert_navigate_down
         [] key = "d" -> dismiss_selected_alert
         [] key = "D" -> dismiss_all_alerts
         [] OTHER -> UNCHANGED << manager_vars, current_screen, alert_panel_open,
                                  alert_selected_index, use_mock, run_app >>
    /\ event' = << "key", None >>

\* the same statement with the alert panel closed; App::scroll_up and
\* App::scroll_down move the scroll offset only
NormalKey(key) ==
    /\ run_app = "loop"
    /\ ~alert_panel_open
    /\ CASE key \in {"q", "Esc"} ->
              /\ run_app' = "Ok"
              /\ UNCHANGED << manager_vars, current_screen, alert_panel_open,
                              alert_selected_index, use_mock >>
         [] key \in {"F1", "F2", "F3"} ->
              /\ current_screen' = CASE key = "F1" -> "Logs"
                                     [] key = "F2" -> "Dashboard"
                                     [] key = "F3" -> "Network"
              /\ UNCHANGED << manager_vars, alert_panel_open,
                              alert_selected_index, use_mock, run_app >>
         [] key = "a" -> toggle_alert_panel
         [] key = "r" -> refresh
         [] OTHER -> UNCHANGED << manager_vars, current_screen, alert_panel_open,
                                  alert_selected_index, use_mock, run_app >>
    /\ event' = << "key", None >>

\* the r key when collect_cluster_info returns Err in App::refresh: `?`
\* returns it from refresh and from run_app, the system metrics already
\* replaced
NormalKey_RefreshErr ==
    /\ run_app = "loop"
    /\ ~alert_panel_open
    /\ ~use_mock
    /\ \E s \in AppSnapshots : system_metrics' = s.m
    /\ run_app' = "Err"
    /\ event' = << "key", Some("collect_cluster_info") >>
    /\ UNCHANGED << active_alerts, history, last_triggered, config_vars, clock,
                    k8s_info, kubevirt_info, alerts, cycle_vars, last_op,
                    cycles, calls, last_id >>
    /\ UNCHANGED << current_screen, alert_panel_open, alert_selected_index, use_mock >>

\* App::update on the Logs and the Network screen: their collectors fall
\* back to mock data on failure, the manager is not called
update_OtherScreen ==
    /\ run_app = "loop"
    /\ current_screen \in {"Logs", "Network"}
    /\ event' = << "update", None >>
    /\ UNCHANGED << manager_vars, current_screen, alert_panel_open,
                    alert_selected_index, use_mock, run_app >>

\* App::update on the Dashboard screen when every collector call returns
\* Ok: the snapshots are replaced and the manager evaluates them
update_Dashboard ==
    /\ run_app = "loop"
    /\ current_screen = "Dashboard"
    /\ \E s \in AppSnapshots, now \in Times :
         \E kv \in KubeVirtResults(s) : Evaluate(s.m, ClusterResult(s), kv, now)
    /\ event' = << "update", None >>
    /\ UNCHANGED << current_screen, alert_panel_open, alert_selected_index,
                    use_mock, run_app >>

\* App::update on the Dashboard screen when collect_cluster_info returns
\* Err: `?` returns it from update before evaluate is reached, and
\* `app.update().await?` returns it from run_app
update_Dashboard_Err ==
    /\ run_app = "loop"
    /\ current_screen = "Dashboard"
    /\ ~use_mock
    /\ \E s \in AppSnapshots : system_metrics' = s.m
    /\ run_app' = "Err"
    /\ event' = << "update", Some("collect_cluster_info") >>
    /\ UNCHANGED << active_alerts, history, last_triggered, config_vars, clock,
                    k8s_info, kubevirt_info, alerts, cycle_vars, last_op,
                    cycles, calls, last_id >>
    /\ UNCHANGED << current_screen, alert_panel_open, alert_selected_index, use_mock >>

NextApp ==
    \/ \E key \in KeyCodes : PanelKey(key)
    \/ \E key \in KeyCodes : NormalKey(key)
    \/ NormalKey_RefreshErr
    \/ update_OtherScreen
    \/ update_Dashboard
    \/ update_Dashboard_Err

SpecApp == InitApp /\ [][NextApp]_vars

\* ------------------------------------------- the loop without a cluster client
\* KubernetesCollector::new leaves the client None, and it stays None when
\* init_client fails: every cluster call returns the mock data and none
\* returns Err
InitScreens == InitApp /\ use_mock = TRUE

NextScreens ==
    \/ \E key \in KeyCodes : PanelKey(key)
    \/ \E key \in KeyCodes : NormalKey(key)
    \/ update_OtherScreen
    \/ cycles < MaxScreenCycles /\ update_Dashboard

SpecScreens == InitScreens /\ [][NextScreens]_vars

\* ------------------------------------------------------------------ properties
\* the dedup window in the unit of the clock
WindowMillis == dedup_window_seconds * MillisPerSecond

\* a step of Spec that is one evaluation cycle
IsCycle == cycles' = cycles + 1

\* every alert the manager holds
AllAlerts ==
    { active_alerts[id] : id \in DOMAIN active_alerts }
    \cup { history[i] : i \in 1..Len(history) }

WithKey(S, key) == { a \in S : DedupKey(a) = key }

\* C1, the alerts: two alerts of the same category+source key were triggered
\* at least one dedup window apart, so at most one cpu alert of the active
\* set was triggered inside the window that ends now.
C1_Spacing ==
    /\ \A a, b \in AllAlerts :
         (a # b /\ DedupKey(a) = DedupKey(b)) =>
           \/ a.triggered_at - b.triggered_at >= WindowMillis
           \/ b.triggered_at - a.triggered_at >= WindowMillis
    /\ Cardinality({ a \in WithKey(AllAlerts, << "system", "cpu" >>) :
                       /\ is_active(a)
                       /\ clock - a.triggered_at < WindowMillis }) <= 1

\* C1, the rule: add_alert_with_dedup discards its candidate - the active set
\* and the dedup map stay as they are - iff the dedup map holds a timestamp
\* for the candidate's key and less than the window has elapsed since;
\* otherwise it admits the candidate: the candidate is in the active set
\* under its identifier and the timestamp of its key, and of no other key,
\* becomes now.
C1_Rule ==
    last_op' = "add_alert_with_dedup" =>
      LET key == DedupKey(Head(alerts))
      IN  IF /\ key \in DOMAIN last_triggered
             /\ clock - last_triggered[key] < WindowMillis
          THEN /\ active_alerts' = active_alerts
               /\ last_triggered' = last_triggered
          ELSE /\ Head(alerts).id \in DOMAIN active_alerts'
               /\ active_alerts'[Head(alerts).id] = Head(alerts)
               /\ DOMAIN last_triggered' = DOMAIN last_triggered \cup {key}
               /\ last_triggered'[key] = clock
               /\ \A other \in DOMAIN last_triggered \ {key} :
                    last_triggered'[other] = last_triggered[other]

Dimensions == {"cpu", "memory", "disk", "load"}

\* the value a dimension of the system metrics evaluator compares
Observed(d, metrics) ==
    CASE d = "cpu" -> metrics.cpu_usage
      [] d = "memory" -> MemoryPercent(metrics)
      [] d = "disk" -> metrics.disk_usage_percent
      [] d = "load" -> metrics.load_avg

WarningOf(d, config) ==
    CASE d = "cpu" -> config.cpu_warning_threshold
      [] d = "memory" -> config.memory_warning_threshold
      [] d = "disk" -> config.disk_warning_threshold
      [] d = "load" -> config.load_warning_threshold

CriticalOf(d, config) ==
    CASE d = "cpu" -> config.cpu_critical_threshold
      [] d = "memory" -> config.memory_critical_threshold
      [] d = "disk" -> config.disk_critical_threshold
      [] d = "load" -> config.load_critical_threshold

EnabledOf(d, config) ==
    CASE d = "cpu" -> config.cpu_enabled
      [] d = "memory" -> config.memory_enabled
      [] d = "disk" -> config.disk_enabled
      [] d = "load" -> config.load_enabled

\* the positions of the alerts of source d in a list of alerts
WithSource(list, d) == { i \in 1..Len(list) : list[i].metadata.source = d }

\* C5: for every dimension whose warning threshold is not above its critical
\* one, a call of the system metrics evaluator emits exactly one alert of that
\* source when the dimension is enabled and its value has reached the warning
\* threshold - Critical with the critical threshold when it has reached the
\* critical one, Warning with the warning threshold otherwise - and no alert
\* of that source when the value is below the warning threshold or the
\* dimension is disabled.
C5_OneAlertPerDimension ==
    last_op = "SystemMetricsRule::evaluate" =>
      \A d \in Dimensions :
        LET v == Observed(d, system_metrics)
            w == WarningOf(d, system_alerts_config)
            c == CriticalOf(d, system_alerts_config)
            found == WithSource(alerts, d)
        IN  w <= c =>
              IF EnabledOf(d, system_alerts_config) /\ v >= w
              THEN /\ Cardinality(found) = 1
                   /\ \A i \in found :
                        /\ alerts[i].level = IF v >= c THEN "Critical" ELSE "Warning"
                        /\ alerts[i].metadata.threshold = Some(IF v >= c THEN c ELSE w)
                        /\ alerts[i].metadata.value = Some(v)
                        /\ alerts[i].category = "System"
                        /\ alerts[i].status = "Active"
              ELSE found = {}

\* C5 witness: with the defaults, cpu at 95 gave one Critical cpu alert and
\* memory at 85 % one Warning memory alert in the same call
C5_Witness ==
    /\ last_op = "SystemMetricsRule::evaluate"
    /\ system_alerts_config = SystemAlertDefault
    /\ system_metrics.cpu_usage = 95
    /\ MemoryPercent(system_metrics) = 85
    /\ \E i \in WithSource(alerts, "cpu") : alerts[i].level = "Critical"
    /\ \E i \in WithSource(alerts, "memory") : alerts[i].level = "Warning"

\* the margin below the threshold at which an alert of a source resolves
HysteresisOf(d) == IF d = "load" THEN LoadHysteresis ELSE PercentHysteresis

\* the value below which an alert of a system source resolves
ResolveCutoff(a) == a.metadata.threshold[1] - HysteresisOf(a.metadata.source)

HasCutoff(a) == a.metadata.source \in Dimensions /\ a.metadata.threshold # None

\* C2: when auto_resolve_alerts runs, an active alert with source cpu, memory
\* or disk and threshold T stays in the active set, unchanged, if the current
\* value is >= T - 5 (load: T - 2); if the value is below, it is removed from
\* the active set and appended to history with status Resolved and the
\* instant of the cycle as resolve timestamp.  The history so far is kept.
C2_Hysteresis ==
    [][ last_op' = "auto_resolve_alerts" =>
          /\ Len(history') >= Len(history)
          /\ SubSeq(history', 1, Len(history)) = history
          /\ \A id \in DOMAIN active_alerts :
               LET a == active_alerts[id]
               IN  HasCutoff(a) =>
                     IF Observed(a.metadata.source, system_metrics) >= ResolveCutoff(a)
                     THEN /\ id \in DOMAIN active_alerts'
                          /\ active_alerts'[id] = a
                          /\ \A i \in (Len(history) + 1)..Len(history') :
                               history'[i].id # id
                     ELSE /\ id \notin DOMAIN active_alerts'
                          /\ \E i \in (Len(history) + 1)..Len(history') :
                               history'[i] =
                                 [ a EXCEPT !.status = "Resolved",
                                            !.resolved_at = << clock >> ]
      ]_vars

\* C2 witness: auto_resolve_alerts has just moved an alert whose value was
\* below its cutoff to history as Resolved, and has left active an alert whose
\* value lies between its cutoff and its threshold
C2_Witness ==
    /\ last_op = "auto_resolve_alerts"
    /\ \E i \in 1..Len(history) :
         /\ HasCutoff(history[i])
         /\ history[i].status = "Resolved"
         /\ history[i].resolved_at = << clock >>
         /\ Observed(history[i].metadata.source, system_metrics) < ResolveCutoff(history[i])
    /\ \E id \in DOMAIN active_alerts :
         /\ HasCutoff(active_alerts[id])
         /\ Observed(active_alerts[id].metadata.source, system_metrics)
              >= ResolveCutoff(active_alerts[id])
         /\ Observed(active_alerts[id].metadata.source, system_metrics)
              < active_alerts[id].metadata.threshold[1]

\* the active alerts of the key of the candidate add_alert_with_dedup is
\* given next
SameKeyActive ==
    { id \in DOMAIN active_alerts :
        DedupKey(active_alerts[id]) = DedupKey(Head(alerts)) }

\* the rule discards the candidate add_alert_with_dedup is given next
NextDiscarded ==
    /\ DedupKey(Head(alerts)) \in DOMAIN last_triggered
    /\ clock - last_triggered[DedupKey(Head(alerts))] < WindowMillis

\* C6: when a candidate arrives at least one dedup window after the last
\* admission for its key while an alert of that key is still active, it is
\* admitted under an identifier of its own: the earlier alert stays in the
\* active set unchanged and the active set holds both.
C6_Recurrence ==
    [][ ( /\ last_op' = "add_alert_with_dedup"
          /\ SameKeyActive # {}
          /\ DedupKey(Head(alerts)) \in DOMAIN last_triggered
          /\ ~NextDiscarded ) =>
          /\ Head(alerts).id \notin SameKeyActive
          /\ Head(alerts).id \in DOMAIN active_alerts'
          /\ active_alerts'[Head(alerts).id] = Head(alerts)
          /\ \A id \in SameKeyActive :
               /\ id \in DOMAIN active_alerts'
               /\ active_alerts'[id] = active_alerts[id]
          /\ last_triggered'[DedupKey(Head(alerts))] = clock
      ]_vars

\* C6 witness: the active set holds two alerts of one key, triggered a dedup
\* window apart
C6_Witness ==
    /\ last_op = "add_alert_with_dedup"
    /\ \E i, j \in DOMAIN active_alerts :
         /\ i # j
         /\ DedupKey(active_alerts[i]) = DedupKey(active_alerts[j])
         /\ active_alerts[j].triggered_at = clock
         /\ clock - active_alerts[i].triggered_at >= WindowMillis

\* C7: a candidate that the dedup rule discards changes nothing: the active
\* set with every field of every alert, the history and the dedup map are
\* what they were, so the window of its key still starts at the last
\* admission.
C7_SuppressedNoEffect ==
    [][ (last_op' = "add_alert_with_dedup" /\ NextDiscarded) =>
          /\ active_alerts' = active_alerts
          /\ history' = history
          /\ last_triggered' = last_triggered
      ]_vars

\* C7 witness: the cpu candidate of a cycle late in the window of the cpu
\* alert admitted at instant 0 was discarded; that alert is the only cpu
\* alert and the window still starts at 0
C7_Witness ==
    /\ last_op = "add_alert_with_dedup"
    /\ system_metrics.cpu_usage >= system_alerts_config.cpu_warning_threshold
    /\ clock > 0
    /\ clock < WindowMillis
    /\ << "system", "cpu" >> \in DOMAIN last_triggered
    /\ last_triggered[<< "system", "cpu" >>] = 0
    /\ \E id \in DOMAIN active_alerts :
         /\ active_alerts[id].metadata.source = "cpu"
         /\ active_alerts[id].triggered_at = 0
    /\ \A id \in DOMAIN active_alerts :
         active_alerts[id].metadata.source = "cpu" =>
           active_alerts[id].triggered_at = 0

Range(seq) == { seq[i] : i \in 1..Len(seq) }

\* C3: every alert of the active set has status Active or Acknowledged, every
\* alert of the history has status Dismissed or Resolved, no identifier is in
\* both collections, and no step puts the identifier of a history entry into
\* the active set.
C3_TerminalNeverActive ==
    /\ [](/\ \A id \in DOMAIN active_alerts :
               active_alerts[id].status \in {"Active", "Acknowledged"}
          /\ \A i \in 1..Len(history) :
               /\ history[i].status \in {"Dismissed", "Resolved"}
               /\ history[i].id \notin DOMAIN active_alerts)
    /\ [][ \A i \in 1..Len(history) : history[i].id \notin DOMAIN active_alerts' ]_vars

\* the alert under an identifier of the active set is in the active set after
\* the step, as it was or acknowledged
StillActive(id) ==
    /\ id \in DOMAIN active_alerts'
    /\ active_alerts'[id] \in { active_alerts[id],
                                acknowledge(active_alerts[id], clock') }

\* the alerts a cycle resolved, in the order it resolved them
ResolvedInCycle ==
    [ i \in 1..Len(to_resolve') |-> resolve(active_alerts[to_resolve'[i]], clock') ]

\* C4: identifiers enter the active set only in an evaluation cycle; an alert
\* leaves the active set only through dismiss, dismiss-all or auto-resolution
\* and is appended to the end of the history in the same step; the entries of
\* the history never change, only the retention pass of a cycle removes them.
C4_Lifecycle ==
    [][ /\ ~IsCycle => DOMAIN active_alerts' \subseteq DOMAIN active_alerts
        /\ \A id \in DOMAIN active_alerts :
             ~StillActive(id) =>
               \/ /\ last_op' = "dismiss_alert"
                  /\ history' = Append(history, dismiss(active_alerts[id]))
               \/ /\ last_op' = "dismiss_all"
                  /\ \E i \in (Len(history) + 1)..Len(history') :
                       history'[i] = dismiss(active_alerts[id])
               \/ /\ IsCycle
                  /\ id \in Range(to_resolve')
        /\ IF IsCycle
           THEN /\ Range(to_resolve') \subseteq DOMAIN active_alerts
                /\ history' = cleanup_history(history \o ResolvedInCycle, clock')
           ELSE /\ Len(history') >= Len(history)
                /\ SubSeq(history', 1, Len(history)) = history
      ]_vars

\* the history of a cycle when its retention pass starts
BeforeCleanup == history \o ResolvedInCycle

\* C8: at the end of every evaluation cycle the history holds at most
\* max_history_size (1000) entries, the alerts the cycle resolved included;
\* when the history is above the cap the cap pass removes exactly
\* length - cap entries, the first ones, and the cycle leaves the entries
\* after them in their order, those 7 days old or older taken out.
C8_CapDropsOldest ==
    [][ IsCycle =>
          LET before == BeforeCleanup
              n == Len(before)
              over == IF n > 1000 THEN n - 1000 ELSE 0
          IN  /\ Len(history') <= 1000
              /\ remove_count' = over
              /\ history' =
                   SelectSeq(SubSeq(before, over + 1, n),
                             LAMBDA a : clock' - a.triggered_at < 7 * MillisPerDay)
      ]_vars

\* C8 witness: a cycle found the history above the cap, drained two entries
\* and left exactly 1000
C8_Witness ==
    /\ last_op = "evaluate"
    /\ remove_count = 2
    /\ Len(to_resolve) = 2
    /\ Len(history) = 1000

\* C9: the history never holds more than max_history_size (1000) entries, in
\* no reachable state, also right after dismiss and dismiss-all.
C9_HistoryBounded == Len(history) <= 1000

\* C10: at the end of every evaluation cycle no history entry was triggered
\* more than 7 days before the instant of the cycle.
C10_NoEntryOlderThanWeek ==
    last_op = "evaluate" =>
      \A i \in 1..Len(history) :
        clock - history[i].triggered_at <= 7 * MillisPerDay

\* C10 witness: a cycle resolved an alert that its retention pass purged at
\* once, with the history far below the cap and a younger entry kept
C10_Witness ==
    /\ last_op = "evaluate"
    /\ Len(history) >= 1
    /\ Len(history) < max_history_size
    /\ \E i \in 1..Len(to_resolve) :
         /\ to_resolve[i][2] < clock - 7 * MillisPerDay
         /\ \A j \in 1..Len(history) : history[j].id # to_resolve[i]

\* the places in new_alerts of the alerts with the given source tag
Emitted(source) ==
    { i \in 1..Len(alerts) : alerts[i].metadata.source = source }

\* nodes_total - nodes_ready, not reduced to 32 bits
Unhealthy == k8s_info.nodes_total - k8s_info.nodes_ready

\* C11: KubernetesRule::evaluate returns nothing when it is disabled; when it
\* is enabled and the snapshot has nodes_total > 0 and nodes_total -
\* nodes_ready > 0 it returns exactly one alert, with source k8s-nodes, whose
\* level is Critical if the unhealthy count is at least nodes_total / 2
\* (integer division) and Warning otherwise; the candidates a cycle collects
\* hold exactly one k8s-nodes alert of that level when the manager's
\* Kubernetes toggle is on and none when it is off.
C11_NodeHealth ==
    /\ last_op = "KubernetesRule::evaluate" /\ ~kubernetes_enabled => alerts = << >>
    /\ last_op = "AlertRule::evaluate" /\ ~kubernetes_enabled =>
         \A i \in 1..Len(alerts) : alerts[i].category # "Kubernetes"
    /\ /\ last_op \in {"KubernetesRule::evaluate", "AlertRule::evaluate"}
       /\ kubernetes_enabled
       /\ k8s_info.nodes_total > 0
       /\ Unhealthy > 0
       => /\ Cardinality(Emitted("k8s-nodes")) = 1
          /\ last_op = "KubernetesRule::evaluate" => Len(alerts) = 1
          /\ \A i \in Emitted("k8s-nodes") :
               /\ alerts[i].category = "Kubernetes"
               /\ alerts[i].level =
                    IF Unhealthy >= k8s_info.nodes_total \div 2
                    THEN "Critical" ELSE "Warning"

\* one node of four is not ready: a Warning
C11_Witness ==
    /\ last_op = "KubernetesRule::evaluate"
    /\ kubernetes_enabled
    /\ k8s_info.nodes_total = 4
    /\ k8s_info.nodes_ready = 3
    /\ Len(alerts) = 1
    /\ alerts[1].metadata.source = "k8s-nodes"
    /\ alerts[1].level = "Warning"

\* C12: for nodes_ready = 2, nodes_total = 3 KubernetesRule::evaluate returns
\* exactly one alert and its level is Warning; for nodes_ready = 0,
\* nodes_total = 4 it returns exactly one alert of level Critical.
C12_NodeExamples ==
    last_op = "KubernetesRule::evaluate" /\ kubernetes_enabled =>
      /\ k8s_info.nodes_ready = 2 /\ k8s_info.nodes_total = 3 =>
           Len(alerts) = 1 /\ alerts[1].level = "Warning"
      /\ k8s_info.nodes_ready = 0 /\ k8s_info.nodes_total = 4 =>
           Len(alerts) = 1 /\ alerts[1].level = "Critical"

\* C13: when it is enabled and the snapshot has nodes_total = 0 and
\* pods_running = 0, KubernetesRule::evaluate returns exactly one alert, of
\* level Critical, category Kubernetes and source k8s-cluster; for every
\* other snapshot, and when it is disabled or panics, it returns no
\* k8s-cluster alert.
C13_ClusterUnreachable ==
    last_op \in {"KubernetesRule::evaluate", "panic"} =>
      IF /\ kubernetes_enabled
         /\ k8s_info.nodes_total = 0
         /\ k8s_info.pods_running = 0
      THEN /\ Len(alerts) = 1
           /\ alerts[1].level = "Critical"
           /\ alerts[1].category = "Kubernetes"
           /\ alerts[1].metadata.source = "k8s-cluster"
      ELSE Emitted("k8s-cluster") = {}

\* the cluster has no nodes and no pods, though nodes are reported ready
C13_Witness ==
    /\ last_op = "KubernetesRule::evaluate"
    /\ k8s_info.nodes_total = 0
    /\ k8s_info.nodes_ready > 0
    /\ k8s_info.pods_running = 0
    /\ Emitted("k8s-cluster") = {1}

\* C14 as stated: there is a cluster snapshot for which one
\* KubernetesRule::evaluate call returns both a k8s-nodes alert and a
\* k8s-cluster alert.
C14_BothCanFire ==
    \E c \in ClusterInfos :
      LET out == KubernetesRule_evaluate(c, TRUE, clock, << 0, 1 >>)
      IN  /\ \E i \in 1..Len(out) : out[i].metadata.source = "k8s-nodes"
          /\ \E i \in 1..Len(out) : out[i].metadata.source = "k8s-cluster"

\* C14: the node-health condition and the cluster-unreachable condition
\* exclude each other: no KubernetesRule::evaluate call, and no cycle's
\* collection of candidates, yields both a k8s-nodes alert and a k8s-cluster
\* alert; a call returns at most one alert.
C14_NeverBoth ==
    last_op \in {"KubernetesRule::evaluate", "AlertRule::evaluate"} =>
      /\ Emitted("k8s-nodes") = {} \/ Emitted("k8s-cluster") = {}
      /\ Cardinality(Emitted("k8s-nodes") \cup Emitted("k8s-cluster")) <= 1

\* nodes are not ready and no pod runs: the node alert alone
C14_Witness ==
    /\ last_op = "KubernetesRule::evaluate"
    /\ k8s_info.pods_running = 0
    /\ k8s_info.nodes_total > k8s_info.nodes_ready
    /\ Emitted("k8s-nodes") = {1}
    /\ Len(alerts) = 1

\* every alert of category KubeVirt the manager holds or is about to be given
KubeVirtAlerts ==
    { a \in AllAlerts : a.category = "KubeVirt" }
    \cup { alerts[i] : i \in { j \in 1..Len(alerts) : alerts[j].category = "KubeVirt" } }

\* C15: KubeVirtRule::evaluate returns exactly one alert, of level Info,
\* category KubeVirt and source kubevirt-migration, when it is enabled and
\* vms_migrating > 0, and nothing otherwise; a manager whose KubeVirt toggle
\* is off never collects, admits or archives a KubeVirt alert.
C15_Migration ==
    /\ last_op = "KubeVirtRule::evaluate" =>
         IF kubevirt_enabled /\ kubevirt_info.vms_migrating > 0
         THEN /\ Len(alerts) = 1
              /\ alerts[1].level = "Info"
              /\ alerts[1].category = "KubeVirt"
              /\ alerts[1].metadata.source = "kubevirt-migration"
         ELSE alerts = << >>
    /\ ~kubevirt_enabled => KubeVirtAlerts = {}
    /\ /\ last_op = "AlertRule::evaluate"
       /\ kubevirt_enabled
       /\ kubevirt_info.vms_migrating > 0
       => Cardinality(Emitted("kubevirt-migration")) = 1

\* a cycle with migrating VMs has ended in a manager whose toggle is off
C15_Witness ==
    /\ last_op = "cleanup_history"
    /\ ~kubevirt_enabled
    /\ kubevirt_info.vms_migrating > 0
    /\ cycles = MaxClusterCycles

\* the entry that resolving the alert a at the instant t pushes to history
ResolvedAt(a, t) == [ a EXCEPT !.status = "Resolved", !.resolved_at = << t >> ]

\* the step removes the active alert id and pushes it, resolved, to history
AutoResolved(id) ==
    /\ id \notin DOMAIN active_alerts'
    /\ \E i \in (Len(history) + 1)..Len(history') :
         history'[i] = ResolvedAt(active_alerts[id], clock)

\* the step leaves the active alert id as it is and pushes nothing under its id
LeftActive(id) ==
    /\ id \in DOMAIN active_alerts'
    /\ active_alerts'[id] = active_alerts[id]
    /\ \A i \in (Len(history) + 1)..Len(history') : history'[i].id # id

\* C16: auto_resolve_alerts removes an active k8s-nodes alert and pushes it
\* to history as Resolved if and only if the snapshot of the cycle has
\* nodes_ready = nodes_total and nodes_total > 0, and an active k8s-cluster
\* alert if and only if the snapshot has nodes_total > 0 or pods_running > 0;
\* otherwise the alert stays in the active set unchanged.
C16_ClusterResolution ==
    [][ last_op' = "auto_resolve_alerts" =>
          \A id \in DOMAIN active_alerts :
            LET a == active_alerts[id]
            IN  /\ a.metadata.source = "k8s-nodes" =>
                     IF k8s_info.nodes_ready = k8s_info.nodes_total
                        /\ k8s_info.nodes_total > 0
                     THEN AutoResolved(id) ELSE LeftActive(id)
                /\ a.metadata.source = "k8s-cluster" =>
                     IF k8s_info.nodes_total > 0 \/ k8s_info.pods_running > 0
                     THEN AutoResolved(id) ELSE LeftActive(id) ]_vars

\* a cluster alert was resolved by a snapshot without nodes whose pods run
C16_Witness ==
    /\ last_op = "auto_resolve_alerts"
    /\ k8s_info.nodes_total = 0
    /\ k8s_info.pods_running > 0
    /\ \E i \in 1..Len(history) :
         /\ history[i].metadata.source = "k8s-cluster"
         /\ history[i].status = "Resolved"
         /\ history[i].resolved_at = << clock >>

\* the source tags the match of auto_resolve_alerts has an arm for
ResolvableSources == Dimensions \cup {"k8s-nodes", "k8s-cluster"}

\* an alert the match of auto_resolve_alerts answers false for, whatever the
\* snapshot: its source tag has no arm, or it is a threshold alert without
\* threshold metadata
Unresolvable(a) ==
    \/ a.metadata.source \notin ResolvableSources
    \/ a.metadata.source \in Dimensions /\ a.metadata.threshold = None

\* C17: an active alert whose source tag is none of cpu, memory, disk, load,
\* k8s-nodes, k8s-cluster (every kubevirt-migration alert), or that is a
\* cpu/memory/disk/load alert without threshold, stays in the active set in
\* every step that is not a dismiss or dismiss-all of it, and no cycle
\* resolves such an alert, whatever the snapshot.
C17_NeverAutoResolved ==
    [][ /\ \A id \in DOMAIN active_alerts :
             Unresolvable(active_alerts[id]) =>
               \/ StillActive(id)
               \/ /\ last_op' = "dismiss_alert"
                  /\ history' = Append(history, dismiss(active_alerts[id]))
               \/ /\ last_op' = "dismiss_all"
                  /\ \E i \in (Len(history) + 1)..Len(history') :
                       history'[i] = dismiss(active_alerts[id])
        /\ IsCycle =>
             /\ \A i \in 1..Len(to_resolve') :
                  to_resolve'[i] \in DOMAIN active_alerts =>
                    ~Unresolvable(active_alerts[to_resolve'[i]])
             /\ \A i \in 1..Len(history') :
                  history'[i].status = "Resolved" /\ history'[i].resolved_at = << clock' >>
                    => ~Unresolvable(history'[i])
      ]_vars

\* a migration alert is still active after a later cycle found no VM migrating
C17_Witness ==
    /\ last_op = "evaluate"
    /\ cycles >= 2
    /\ kubevirt_info.vms_migrating = 0
    /\ \E id \in DOMAIN active_alerts :
         active_alerts[id].metadata.source = "kubevirt-migration"

\* every alert of the active set but the one under id is as it was
OthersUnchanged(id) ==
    \A other \in (DOMAIN active_alerts) \ {id} :
      other \in DOMAIN active_alerts' /\ active_alerts'[other] = active_alerts[other]

\* C18: acknowledge_alert(id) on an alert of the active set whose status is
\* Active sets the status to Acknowledged and acknowledged_at to the instant
\* of the call and leaves the alert in the active set; on an alert that is
\* already Acknowledged it changes nothing, so the first acknowledge time is
\* kept.  The other active alerts, the history and the dedup map are
\* unchanged in both cases.
C18_Acknowledge ==
    [][ last_op' = "acknowledge_alert" /\ last_id'[1] \in DOMAIN active_alerts =>
          LET id == last_id'[1]
              a == active_alerts[id]
          IN  /\ DOMAIN active_alerts' = DOMAIN active_alerts
              /\ OthersUnchanged(id)
              /\ active_alerts'[id] =
                   IF a.status = "Active"
                   THEN [ a EXCEPT !.status = "Acknowledged",
                                   !.acknowledged_at = << clock' >> ]
                   ELSE a
              /\ history' = history
              /\ last_triggered' = last_triggered ]_vars

\* an alert acknowledged at an earlier instant was acknowledged again
C18_Witness ==
    /\ last_op = "acknowledge_alert"
    /\ last_id # None
    /\ last_id[1] \in DOMAIN active_alerts
    /\ active_alerts[last_id[1]].status = "Acknowledged"
    /\ active_alerts[last_id[1]].acknowledged_at[1] < clock

\* C19: dismiss_alert(id) on an alert of the active set, Active or
\* Acknowledged, removes it from the active set and appends it to the history
\* as the last entry, with status Dismissed, its acknowledge time as it was
\* and no resolve time; the other active alerts, the earlier history entries
\* and the dedup map are unchanged.
C19_Dismiss ==
    [][ last_op' = "dismiss_alert" /\ last_id'[1] \in DOMAIN active_alerts =>
          LET id == last_id'[1]
              a == active_alerts[id]
          IN  /\ DOMAIN active_alerts' = (DOMAIN active_alerts) \ {id}
              /\ OthersUnchanged(id)
              /\ history' = Append(history, [ a EXCEPT !.status = "Dismissed" ])
              /\ history'[Len(history')].acknowledged_at = a.acknowledged_at
              /\ history'[Len(history')].resolved_at = None
              /\ last_triggered' = last_triggered ]_vars

\* an acknowledged alert was dismissed
C19_Witness ==
    /\ last_op = "dismiss_alert"
    /\ last_id # None
    /\ history # << >>
    /\ history[Len(history)].id = last_id[1]
    /\ history[Len(history)].status = "Dismissed"
    /\ history[Len(history)].acknowledged_at # None
    /\ history[Len(history)].resolved_at = None
    /\ last_id[1] \notin DOMAIN active_alerts

\* C20: acknowledge_alert(id) and dismiss_alert(id) with an identifier that is
\* not in the active set (never admitted, or already dismissed or resolved)
\* leave the active set, the history and the dedup map unchanged; a second
\* dismiss_alert(id) therefore changes nothing.
C20_UnknownId ==
    [][ /\ last_op' \in {"acknowledge_alert", "dismiss_alert"}
        /\ last_id'[1] \notin DOMAIN active_alerts
        => /\ active_alerts' = active_alerts
           /\ history' = history
           /\ last_triggered' = last_triggered ]_vars

\* dismiss_alert was called with the identifier of an alert dismissed before,
\* while other alerts are active
C20_Witness ==
    /\ last_op = "dismiss_alert"
    /\ last_id # None
    /\ last_id[1] \notin DOMAIN active_alerts
    /\ active_alerts # << >>
    /\ \E i \in 1..Len(history) :
         history[i].id = last_id[1] /\ history[i].status = "Dismissed"
    /\ calls = cycles + 2

\* the positions of the history at which the alert stands
Positions(h, alert) == { i \in 1..Len(h) : h[i] = alert }

\* C21: after dismiss_all the active set is empty, every alert that was
\* active stands exactly once in the history with status Dismissed, the
\* history has grown by exactly the former active count, and the entries
\* present before the call are an unchanged prefix.
C21_DismissAll ==
    [][ last_op' = "dismiss_all" =>
          /\ active_alerts' = << >>
          /\ Len(history') = Len(history) + Cardinality(DOMAIN active_alerts)
          /\ SubSeq(history', 1, Len(history)) = history
          /\ \A id \in DOMAIN active_alerts :
               /\ Cardinality(Positions(history', [ active_alerts[id] EXCEPT !.status = "Dismissed" ])) = 1
               /\ Positions(history', active_alerts[id]) = { } ]_vars

\* dismiss_all took two alerts, one of them acknowledged, to a history that
\* was at its cap
C21_Witness ==
    /\ last_op = "dismiss_all"
    /\ active_alerts = << >>
    /\ Len(history) = max_history_size + 2
    /\ history[Len(history)].status = "Dismissed"
    /\ history[Len(history) - 1].status = "Dismissed"
    /\ \E i \in { Len(history) - 1, Len(history) } : history[i].acknowledged_at # None

\* C22: get_active_alerts returns every alert of the active set exactly once,
\* ordered by level descending (Critical, Error, Warning, Info), alerts of
\* equal level by trigger time descending, whatever the order in which the
\* map yields them.
C22_ActiveAlertsSorted ==
    \A values \in Values(active_alerts) :
      LET listed == get_active_alerts(values)
          rank == [ l \in AlertLevel |->
                      CHOOSE n \in 1..4 : << "Critical", "Error", "Warning", "Info" >>[n] = l ]
      IN  /\ Len(listed) = Cardinality(DOMAIN active_alerts)
          /\ \A id \in DOMAIN active_alerts :
               Cardinality(Positions(listed, active_alerts[id])) = 1
          /\ \A i, j \in 1..Len(listed) :
               i < j => \/ rank[listed[i].level] < rank[listed[j].level]
                        \/ /\ listed[i].level = listed[j].level
                           /\ listed[i].triggered_at >= listed[j].triggered_at

\* two alerts of one level raised at different instants are active
C22_Witness ==
    \E id1, id2 \in DOMAIN active_alerts :
      /\ active_alerts[id1].level = active_alerts[id2].level
      /\ active_alerts[id1].triggered_at < active_alerts[id2].triggered_at
      /\ \E values \in Values(active_alerts) :
           /\ values[1] = active_alerts[id1]
           /\ get_active_alerts(values)[1] = active_alerts[id2]

\* C23: has_critical_alerts is true exactly when the active set holds an
\* alert of level Critical with status Active; once the only Critical alert
\* has been acknowledged it is false although the alert is still in the
\* active set.
C23_HasCritical ==
    \A values \in Values(active_alerts) :
      /\ has_critical_alerts(values) <=>
           Cardinality({ id \in DOMAIN active_alerts :
                           /\ active_alerts[id].level = "Critical"
                           /\ active_alerts[id].status = "Active" }) > 0
      /\ ( /\ last_op = "acknowledge_alert"
           /\ last_id[1] \in DOMAIN active_alerts
           /\ \A id \in DOMAIN active_alerts :
                active_alerts[id].level = "Critical" => id = last_id[1] )
         => ~has_critical_alerts(values)

\* the only Critical alert of two active alerts has just been acknowledged
C23_Witness ==
    /\ last_op = "acknowledge_alert"
    /\ last_id[1] \in DOMAIN active_alerts
    /\ active_alerts[last_id[1]].level = "Critical"
    /\ active_alerts[last_id[1]].status = "Acknowledged"
    /\ Cardinality(DOMAIN active_alerts) = 2
    /\ \A id \in DOMAIN active_alerts :
         active_alerts[id].level = "Critical" => id = last_id[1]

\* C24: in every reachable state get_alert_counts returns, as (critical,
\* error, warning, info), the number of alerts of the active set of each
\* level, which is the number of alerts get_alerts_by_level returns for the
\* level; the four counts sum to active_count, and has_active_alerts is true
\* exactly when active_count > 0.
C24_Counts ==
    \A values \in Values(active_alerts) :
      LET counts == get_alert_counts(values)
          order == << "Critical", "Error", "Warning", "Info" >>
      IN  /\ \A n \in 1..4 :
               /\ counts[n] = Cardinality({ id \in DOMAIN active_alerts :
                                              active_alerts[id].level = order[n] })
               /\ counts[n] = Len(get_alerts_by_level(values, order[n]))
               /\ \A i \in 1..counts[n] :
                    get_alerts_by_level(values, order[n])[i].level = order[n]
          /\ counts[1] + counts[2] + counts[3] + counts[4] = active_count(active_alerts)
          /\ has_active_alerts(active_alerts) <=> active_count(active_alerts) > 0

\* a Critical alert and an acknowledged Warning alert are active
C24_Witness ==
    /\ active_count(active_alerts) = 2
    /\ \E values \in Values(active_alerts) : get_alert_counts(values) = << 1, 0, 1, 0 >>
    /\ \E id \in DOMAIN active_alerts :
         active_alerts[id].level = "Warning" /\ active_alerts[id].status = "Acknowledged"

\* what Alert::new and with_value give an alert and no method changes
Created(alert) ==
    << alert.id, alert.level, alert.category, alert.title, alert.message, alert.metadata >>

\* C25: over the cycles and the commands, the trigger time of an alert never
\* changes; its acknowledge time changes only from none to a time, in the
\* step that takes its status from Active to Acknowledged; and its resolve
\* time is set exactly when its status is Resolved, so a Dismissed alert has
\* none.
C25_Timestamps ==
    /\ [](\A a \in AllAlerts : (a.resolved_at # None) <=> (a.status = "Resolved"))
    /\ [][ \A b \in AllAlerts' \ AllAlerts : \A a \in AllAlerts :
             a.id = b.id /\ Created(a) = Created(b) =>
               /\ b.triggered_at = a.triggered_at
               /\ b.acknowledged_at # a.acknowledged_at =>
                    /\ a.acknowledged_at = None
                    /\ b.acknowledged_at # None
                    /\ a.status = "Active"
                    /\ b.status = "Acknowledged" ]_vars

\* an alert acknowledged after it was raised has been resolved by a later
\* cycle and stands in the history with the three times
C25_Witness ==
    \E i \in 1..Len(history) :
      /\ history[i].status = "Resolved"
      /\ history[i].acknowledged_at # None
      /\ history[i].triggered_at < history[i].acknowledged_at[1]
      /\ history[i].acknowledged_at[1] < history[i].resolved_at[1]

\* C26: every admitted alert receives an identifier this manager has not
\* used before, so that admitting a candidate adds exactly one alert to the
\* active set and replaces none, also when several alerts of one category
\* are created in the same millisecond of a cycle.
C26_FreshIdentifiers ==
    [][ last_op' = "add_alert_with_dedup" /\ ~NextDiscarded =>
          /\ Head(alerts).id \notin DOMAIN active_alerts
          /\ \A i \in 1..Len(history) : history[i].id # Head(alerts).id
          /\ Cardinality(DOMAIN active_alerts') = Cardinality(DOMAIN active_alerts) + 1
          /\ \A id \in DOMAIN active_alerts : active_alerts'[id] = active_alerts[id] ]_vars

\* C27: auto_resolve_alerts resolves an Acknowledged alert exactly when it
\* would resolve the same alert with status Active; the history entry it
\* pushes has status Resolved, the instant of the cycle as resolve time and
\* the acknowledge time of the alert.
C27_AcknowledgedResolved ==
    [][ last_op' = "auto_resolve_alerts" =>
          \A id \in DOMAIN active_alerts :
            LET a == active_alerts[id]
                fresh == [ a EXCEPT !.status = "Active", !.acknowledged_at = None ]
            IN  a.status = "Acknowledged" =>
                  /\ id \in Range(to_resolve') <=> should_resolve(fresh, system_metrics, k8s_info)
                  /\ id \in DOMAIN active_alerts' <=> id \notin Range(to_resolve')
                  /\ id \in Range(to_resolve') =>
                       \E i \in (Len(history) + 1)..Len(history') :
                         /\ history'[i] = [ a EXCEPT !.status = "Resolved",
                                                     !.resolved_at = << clock >> ]
                         /\ history'[i].acknowledged_at = a.acknowledged_at
                         /\ history'[i].acknowledged_at # None ]_vars

\* a cycle has just resolved an alert that was acknowledged before the cycle
C27_Witness ==
    /\ last_op = "auto_resolve_alerts"
    /\ to_resolve # << >>
    /\ history[Len(history)].id = to_resolve[Len(to_resolve)]
    /\ history[Len(history)].status = "Resolved"
    /\ history[Len(history)].acknowledged_at = << 0 >>
    /\ history[Len(history)].resolved_at = << clock >>
    /\ clock > 0

\* C28, as stated: when memory_total is 0 and the memory warning threshold
\* is positive, the system metrics evaluator emits no alert of source memory,
\* whatever memory_used is.
C28_NoMemoryAlert ==
    ( /\ last_op = "SystemMetricsRule::evaluate"
      /\ system_metrics.memory_total_gb = 0
      /\ system_alerts_config.memory_warning_threshold > 0 )
    => WithSource(alerts, "memory") = {}

\* C28, amended: when memory_total is 0 the evaluator takes the memory
\* percentage to be 0 without dividing, so with a positive memory warning
\* threshold and a positive memory critical threshold it emits no alert of
\* source memory, whatever memory_used is; with a critical threshold of 0 or
\* less it emits a Critical memory alert carrying the value 0.
C28_ZeroTotal ==
    ( /\ last_op = "SystemMetricsRule::evaluate"
      /\ system_metrics.memory_total_gb = 0 )
    => IF ~system_alerts_config.memory_enabled
       THEN WithSource(alerts, "memory") = {}
       ELSE IF system_alerts_config.memory_critical_threshold <= 0
       THEN \E i \in WithSource(alerts, "memory") :
              /\ alerts[i].level = "Critical"
              /\ alerts[i].metadata.value = Some(0)
       ELSE system_alerts_config.memory_warning_threshold > 0
              => WithSource(alerts, "memory") = {}

\* the evaluator ran on 5 GB used of a total of 0 with memory alerts enabled
\* and positive thresholds: it raised a cpu alert and no memory alert
C28_Witness ==
    /\ last_op = "SystemMetricsRule::evaluate"
    /\ system_metrics.memory_total_gb = 0
    /\ system_metrics.memory_used_gb = 5
    /\ system_alerts_config.memory_enabled
    /\ system_alerts_config.memory_warning_threshold > 0
    /\ system_alerts_config.memory_critical_threshold > 0
    /\ WithSource(alerts, "memory") = {}
    /\ WithSource(alerts, "cpu") # {}

\* C29: when a collector call fails during a periodic update, the failure
\* does not stop the loop: the update goes on with the snapshot it had, the
\* manager is evaluated in this cycle, and the loop keeps running.
C29_CollectorFailureTolerated ==
    [][ event' = << "update", Some("collect_cluster_info") >> =>
          /\ run_app' = "loop"
          /\ k8s_info' = k8s_info
          /\ IsCycle
          /\ last_op' = "evaluate" ]_vars

\* C30: with the alert panel open and an alert selected, there is a key that
\* acknowledges the selected alert, a key that dismisses it and a key that
\* dismisses all alerts.
C30_KeysReachCommands ==
    ( /\ run_app = "loop"
      /\ alert_panel_open
      /\ calls < MaxCalls
      /\ alert_selected_index < active_count(active_alerts) )
    => /\ \E key \in KeyCodes :
            ENABLED ( /\ PanelKey(key)
                      /\ DOMAIN active_alerts' = DOMAIN active_alerts
                      /\ \E id \in DOMAIN active_alerts' :
                           /\ active_alerts[id].status = "Active"
                           /\ active_alerts'[id].status = "Acknowledged" )
       /\ \E key \in KeyCodes :
            ENABLED ( /\ PanelKey(key)
                      /\ last_op' = "dismiss_alert"
                      /\ Cardinality(DOMAIN active_alerts') = Cardinality(DOMAIN active_alerts) - 1
                      /\ history'[Len(history')].status = "Dismissed" )
       /\ \E key \in KeyCodes :
            ENABLED ( /\ PanelKey(key)
                      /\ last_op' = "dismiss_all"
                      /\ active_alerts' = << >>
                      /\ Len(history') = Len(history) + Cardinality(DOMAIN active_alerts) )

\* C31: after every evaluation cycle whose snapshot has cpu_usage at or
\* above the cpu warning threshold, with cpu alerting enabled and no dismiss
\* issued, the active set holds an alert of source cpu.  Stated for the
\* cycles that start with a cpu alert raised at an earlier instant, the case
\* of a value that drops from the critical into the warning range.
C31_CpuStaysAlerted ==
    [][ ( /\ IsCycle
          /\ system_alerts_config.cpu_enabled
          /\ system_metrics'.cpu_usage >= system_alerts_config.cpu_warning_threshold
          /\ \A i \in 1..Len(history') : history'[i].status # "Dismissed"
          /\ \E id \in DOMAIN active_alerts :
               /\ active_alerts[id].metadata.source = "cpu"
               /\ active_alerts[id].triggered_at < clock' )
        => \E id \in DOMAIN active_alerts' :
             active_alerts'[id].metadata.source = "cpu" ]_vars

\* C32: deduplication ignores the level: a Critical candidate that arrives
\* within the dedup window of the last admission for its key, while a
\* Warning alert of that key is active, is discarded; the Warning alert keeps
\* its level, message and threshold, and the active set and the dedup map
\* are as they were.
C32_NoEscalation ==
    [][ ( /\ last_op' = "add_alert_with_dedup"
          /\ Head(alerts).level = "Critical"
          /\ NextDiscarded
          /\ \E id \in SameKeyActive : active_alerts[id].level = "Warning" )
        => /\ DOMAIN active_alerts' = DOMAIN active_alerts
           /\ \A id \in SameKeyActive :
                /\ active_alerts'[id].level = active_alerts[id].level
                /\ active_alerts'[id].message = active_alerts[id].message
                /\ active_alerts'[id].metadata = active_alerts[id].metadata
           /\ active_alerts' = active_alerts
           /\ last_triggered' = last_triggered ]_vars

\* the cpu alert raised as Warning at instant 0 is the only cpu alert after
\* the Critical cpu candidate of a cycle inside the window was handled
C32_Witness ==
    /\ last_op = "add_alert_with_dedup"
    /\ system_metrics.cpu_usage >= system_alerts_config.cpu_critical_threshold
    /\ clock - last_triggered[<< "system", "cpu" >>] < WindowMillis
    /\ \E id \in DOMAIN active_alerts : active_alerts[id].metadata.source = "cpu"
    /\ \A id \in DOMAIN active_alerts :
         active_alerts[id].metadata.source = "cpu" =>
           /\ active_alerts[id].level = "Warning"
           /\ active_alerts[id].metadata.threshold = << system_alerts_config.cpu_warning_threshold >>
    /\ \A i \in 1..Len(alerts) : alerts[i].metadata.source # "cpu"

\* C33: dismiss, dismiss-all and auto-resolution leave the dedup map as it
\* is: a command changes no entry, a cycle removes none and rewrites only the
\* entries whose window has ended; so inside the window of the last admission
\* for a key a cycle admits nothing for it, also when no alert of that key is
\* active any more.
C33_DedupMapKept ==
    [][ /\ last_op' \in {"dismiss_alert", "dismiss_all"} => last_triggered' = last_triggered
        /\ IsCycle =>
             \A key \in DOMAIN last_triggered :
               /\ key \in DOMAIN last_triggered'
               /\ clock' - last_triggered[key] < WindowMillis =>
                    /\ last_triggered'[key] = last_triggered[key]
                    /\ (\A id \in DOMAIN active_alerts : DedupKey(active_alerts[id]) # key)
                         => \A id \in DOMAIN active_alerts' : DedupKey(active_alerts'[id]) # key ]_vars

\* a cycle inside the window of a dismissed cpu alert has seen the cpu at or
\* above its warning threshold and left the active set without a cpu alert
C33_Witness ==
    /\ last_op = "evaluate"
    /\ system_metrics.cpu_usage >= system_alerts_config.cpu_warning_threshold
    /\ << "system", "cpu" >> \in DOMAIN last_triggered
    /\ clock - last_triggered[<< "system", "cpu" >>] < WindowMillis
    /\ \E i \in 1..Len(history) :
         /\ history[i].metadata.source = "cpu"
         /\ history[i].status = "Dismissed"
    /\ \A id \in DOMAIN active_alerts : active_alerts[id].metadata.source # "cpu"

\* C34: no alert is admitted and auto-resolved in the same cycle: every alert
\* the cycle has admitted (an alert of the active set triggered at the
\* instant of the cycle, the earlier alerts being those of instant 0) is in
\* the active set, under its identifier, after every later step of the cycle.
C34_AdmittedStaysActive ==
    [][ \A id \in DOMAIN active_alerts :
          (clock > 0 /\ active_alerts[id].triggered_at = clock)
            => /\ id \in DOMAIN active_alerts'
               /\ Created(active_alerts'[id]) = Created(active_alerts[id]) ]_vars

\* the two passes of cleanup_history in the other order: the age pass, then
\* the cap pass
PurgeThenTrim(h, now) ==
    LET purged == SelectSeq(h, LAMBDA a : a.triggered_at > HistoryCutoff(now))
    IN  SubSeq(purged, RemoveCount(purged) + 1, Len(purged))

C36_SelectionInList ==
    (alert_panel_open /\ has_active_alerts(active_alerts))
      => alert_selected_index < active_count(active_alerts)

\* C37: an evaluation cycle runs only in a periodic update on the Dashboard
\* screen: an update on the Logs or the Network screen, and every key
\* handled with the panel closed - the manual refresh on any screen among
\* them - leave the active set, the history and the dedup map as they were.
C37_OnlyDashboardEvaluates ==
    [][ /\ IsCycle => (current_screen = "Dashboard" /\ event'[1] = "update")
        /\ ( \/ event'[1] = "update" /\ current_screen \in {"Logs", "Network"}
             \/ event'[1] = "key" /\ ~alert_panel_open )
           => /\ active_alerts' = active_alerts
              /\ history' = history
              /\ last_triggered' = last_triggered ]_vars

\* a manual refresh on the Network screen has collected a cpu usage in the
\* critical range and the manager holds no trace of it
C37_Witness ==
    /\ run_app = "loop"
    /\ event[1] = "key"
    /\ current_screen = "Network"
    /\ system_metrics.cpu_usage >= system_alerts_config.cpu_critical_threshold
    /\ << "system", "cpu" >> \notin DOMAIN last_triggered
    /\ active_alerts = << >>

C39_ZeroTotalResolvesMemory ==
    [][ (last_op' = "auto_resolve_alerts" /\ system_metrics.memory_total_gb = 0)
        => \A id \in DOMAIN active_alerts :
             ( /\ active_alerts[id].metadata.source = "memory"
               /\ active_alerts[id].metadata.threshold # None
               /\ active_alerts[id].metadata.threshold[1] > 5 )
             => /\ id \notin DOMAIN active_alerts'
                /\ \E i \in (Len(history) + 1)..Len(history') :
                     /\ Created(history'[i]) = Created(active_alerts[id])
                     /\ history'[i].status = "Resolved"
                     /\ history'[i].resolved_at = Some(clock) ]_vars

\* the memory alert raised at instant 0 was resolved by a cycle whose
\* snapshot reports no memory at all
C39_Witness ==
    /\ last_op = "auto_resolve_alerts"
    /\ system_metrics.memory_total_gb = 0
    /\ \A id \in DOMAIN active_alerts : active_alerts[id].metadata.source # "memory"
    /\ \E i \in 1..Len(history) :
         /\ history[i].metadata.source = "memory"
         /\ history[i].status = "Resolved"
         /\ history[i].resolved_at = Some(clock)

====
